---- MODULE Spec2Model ----
(***************************************************************************)
(* go-digital-twin: the Registry (pkg/registry/registry.go), the twin and   *)
(* its features (pkg/twin/twin.go) and the PubSub event bus                *)
(* (pkg/messaging_sim) as state machines.                                  *)
(*                                                                         *)
(* A Registry call is split at the points where another goroutine can run: *)
(* the call, the acquisition of Registry.mutex, the map lookup, the map    *)
(* write with the return value, and the deferred unlock. The calls that    *)
(* add, update and remove a twin's feature are split the same way, around  *)
(* DigitalTwin.mutex.                                                      *)
(*                                                                         *)
(* On the bus, Subscribe, Unsubscribe and Close hold PubSub.mutex          *)
(* exclusively from their first statement to their last and touch nothing  *)
(* a goroutine can reach without it, so each is one step, enabled when no  *)
(* goroutine holds the mutex. Publish holds the read lock, which other     *)
(* publishers share, and consumers take no lock: Publish is split into the *)
(* lookup, one step per iteration of its loop, and the return.             *)
(*                                                                         *)
(* sync.RWMutex is modelled by who holds it; a goroutine waiting in Lock   *)
(* does not keep later RLock calls from succeeding, which allows more      *)
(* interleavings than Go's writer preference does.                         *)
(***************************************************************************)
EXTENDS Integers, Sequences, FiniteSets, TLC

\* ------------------------------------------------------------------ bounds

NumThreads == 3      \* worker goroutines; the first two (Callers) issue arbitrary calls
MaxTwins == 2        \* DigitalTwin objects constructed while arbitrary calls are issued
MaxClock == 1        \* readings of time.Now() are 0..MaxClock
MaxChans == 2        \* channels ever made by Subscribe while goroutines publish
MaxSubs == 3         \* channels ever made by Subscribe while nothing is published
MaxPublish == 2      \* Publish calls while goroutines publish concurrently
Overflow == 2        \* Publish calls beyond Capacity when one goroutine fills the queues
MaxMaps == 4         \* maps made besides the Attributes maps of the twins
MaxLists == 3        \* backing arrays made for []string slices
MaxPuts == 3         \* feature PUT requests one client sends one after the other

Main == 0            \* the goroutine that starts the workers and waits for them
Workers == 1..NumThreads
Threads == {Main} \cup Workers
Callers == {1, 2}
Scanner == 1         \* the goroutine that scans the Registry while Handler works on a twin
Handler == 2
Rival == 1           \* a second request handler, at work on the feature Handler works on
Refs == 1..(IF MaxTwins > NumThreads THEN MaxTwins ELSE NumThreads)
IDs == {"a", "b", "c", "d"}
Types == {"sensor", "light"}
Chans == 1..(IF MaxSubs > MaxChans THEN MaxSubs ELSE MaxChans)
PubChans == 1..MaxChans
FillChans == {1, 2}  \* the two subscriber channels of one topic that one goroutine fills
Topics == {"T", "U"}

\* make(chan Message, 10)
Capacity == 10

NilRef == 0
NoThread == 0

FeatureIDs == {"temperature", "humidity"}
\* The keys and values the callers use for attributes and properties, and the
\* strings they use for definitions.
AttrKeys == {"location"}
StringValues == {"lab", "hall"}    \* values of type string
ListValues == {"[lab]"}            \* a value of type []string: the slice with "lab" in it
AttrValues == StringValues \cup ListValues
PropKeys == {"value"}
PropValues == {"on", "off"}
Definitions == {"d1", "d2"}
NilValue == "<nil>"

\* The addresses of the maps: the Attributes map of twin object r is made with the
\* twin (AttrMap), the others are made by NewFeatureState and by the calls that
\* return a copy of a map.
MapRefs == 1..(Cardinality(Refs) + MaxMaps)
AttrMap(r) == r
FsMaps == MapRefs \ Refs
ArrRefs == 1..MaxLists

Unlocked == [w |-> NoThread, r |-> {}]

\* The FeatureState values given to AddFeature and UpdateFeature by callers whose
\* FeatureState is not modelled further: two structs that NewFeatureState made.
FeatureStates ==
    {[Properties |-> Cardinality(Refs) + n, DesiredProps |-> Cardinality(Refs) + n + 1,
      Definition |-> NilRef, LastModified |-> 0, mutex |-> Unlocked] : n \in {1, 3}}

\* The error values of pkg/twin.
ErrFeatureNotFound == "feature not found"
ErrFeatureAlreadyExists == "feature already exists"

\* The error values of pkg/registry.
ErrTwinNotFound == "digital twin not found"
ErrTwinAlreadyExists == "digital twin already exists"
NilErr == "nil"

VARIABLES
    now,          \* the reading time.Now() gives
    heap,         \* the DigitalTwin objects: Refs -> record, or NoTwin when not yet constructed
    twins,        \* Registry.twins: a map id -> *DigitalTwin (a function on the ids present)
    regMutex,     \* Registry.mutex: [w: the goroutine holding Lock or NoThread, r: those holding RLock]
    pc,           \* each goroutine's position in its Registry call
    call,         \* each goroutine's current call: [op, id, dt, keep]; keep: the caller
                  \* reads the result after the return (else it drops it and calls again)
    exists,       \* each goroutine's local `exists` of the map lookup
    ret,          \* each goroutine's last return value: [err, dt, list]
    lastOK,       \* history: per id, the most recent successful Create or Delete,
                  \* [op, dt], dt the twin that Create was given ("none" at first)
    made          \* history: per twin object, the (id, type) its constructor was given

regVars == <<now, heap, twins, regMutex, pc, call, exists, ret, lastOK, made>>

VARIABLES
    subscribers,  \* PubSub.subscribers: a map topic -> []chan Message (a function on the topics present)
    chans,        \* the channels made by Subscribe: [made, buf, closed]
    psMutex,      \* PubSub.mutex: [w, r] as regMutex
    pub,          \* each goroutine's position in Publish: [pc, msg, subs, i]
    panic,        \* the run-time panic raised, "none" when none was
    published,    \* history: the number of Publish calls made; the payload of a call
                  \* is its number, so that messages can be told apart
    sentTo,       \* history: per channel, the payloads published to its topic while it was subscribed
    lastRecv,     \* history: per channel, the last message its consumer dequeued
    subTopic,     \* history: per channel, the topic its Subscribe was given ("" when not made)
    removed       \* history: the channels ch for which Unsubscribe(subTopic[ch], ch) has returned

busVars == <<subscribers, chans, psMutex, pub, panic, published, sentTo, lastRecv,
             subTopic, removed>>

VARIABLES
    features,     \* DigitalTwin.Features of each twin object: a map feature id -> FeatureState
    twinMutex,    \* DigitalTwin.mutex of each twin object: [w, r] as regMutex
    tpc,          \* each goroutine's position in its DigitalTwin call
    tcall,        \* each goroutine's current DigitalTwin call: [op, dt, id, feature, keep]
    texists,      \* each goroutine's local `exists` of the lookup in dt.Features
    tret          \* each goroutine's last return value of a DigitalTwin call: an error

twinVars == <<features, twinMutex, tpc, tcall, texists, tret>>

VARIABLES
    maps,         \* the maps made by make(map[string]interface{}): per address [used, kv]
    arrays,       \* the backing arrays of the []string slices: per address [used, elems]
    feature,      \* each goroutine's local variable `feature`: a FeatureState struct
    fpc,          \* each goroutine's position in its FeatureState call
    fcall,        \* each goroutine's current FeatureState call: [op, key, value, list]
    hold,         \* what each goroutine got from its reads, and the list it made itself:
                  \* [exists, value, map, list, own, all], and the history src: whether
                  \* `feature` came from NewFeatureState ("new") or from a twin ("get")
    find          \* each goroutine's loop of FindByAttribute / FindByFeature:
                  \* [seen, cur, result]

fsVars == <<maps, arrays, feature, fpc, fcall, hold, find>>

VARIABLES
    req,          \* each goroutine's request handler: the request [op, id, fid, key, value,
                  \* type, bad], its position `stage`, its local `dt`, the status it
                  \* answered with, and the history n, the number of the request, and
                  \* before, the properties of its feature when it was accepted
    wg,           \* Server.wg: the counter of the sync.WaitGroup
    shut,         \* Server.Shutdown: "none" before the call, "wait" while its goroutine is
                  \* in wg.Wait(), "closed" when waitCh is closed, then what it returned:
                  \* "nil" or "deadline" (ctx.Err())
    events        \* history: the events the handlers gave to Publish: [topic, id, n], n
                  \* the number of the request

srvVars == <<req, wg, shut, events>>

vars == <<regVars, busVars, twinVars, fsVars, srvVars>>

\* The zero value of FeatureState: nil maps, a nil slice, the zero time.
NoFeatureState == [Properties |-> NilRef, DesiredProps |-> NilRef, Definition |-> NilRef,
                   LastModified |-> -1, mutex |-> Unlocked]

NoTwin == [ID |-> "", Type |-> "", Definition |-> "", CreatedAt |-> -1, ModifiedAt |-> -1]
NoCall == [op |-> "none", id |-> "", dt |-> NilRef, keep |-> FALSE]
NoOp == [op |-> "none", dt |-> NilRef]
NotMade == [id |-> "", type |-> ""]
NoRet == [err |-> "none", dt |-> NilRef, list |-> {}]
NoTwinCall == [op |-> "none", dt |-> NilRef, id |-> "", feature |-> NoFeatureState,
               keep |-> FALSE]

Allocated == {r \in Refs : heap[r] # NoTwin}

\* ------------------------------------------------------------ Go's map

MapPut(m, k, v) == [x \in (DOMAIN m) \cup {k} |-> IF x = k THEN v ELSE m[x]]
MapDelete(m, k) == [x \in (DOMAIN m) \ {k} |-> m[x]]
EmptyMap == [x \in {} |-> NilRef]

NoFsCall == [op |-> "none", obj |-> NoThread]
NoHold == [exists |-> FALSE, value |-> NilValue, map |-> NilRef, list |-> NilRef,
           own |-> NilRef, all |-> EmptyMap, src |-> "none"]
NoRequest == [op |-> "none", id |-> "", fid |-> "", key |-> "", value |-> "", type |-> "",
              bad |-> FALSE, stage |-> "none", status |-> "none", dt |-> NilRef, n |-> 0,
              before |-> EmptyMap]
NoFind == [seen |-> {}, cur |-> NilRef, result |-> <<>>]
FreeMap == [used |-> FALSE, kv |-> EmptyMap]
FreeArray == [used |-> FALSE, elems |-> <<>>]

FreeMaps == {m \in FsMaps : ~maps[m].used}
FreeArrays == {a \in ArrRefs : ~arrays[a].used}
FirstFree(S) == CHOOSE m \in S : \A n \in S : m <= n

\* ------------------------------------------------------ sync.RWMutex

CanLock(m) == m.w = NoThread /\ m.r = {}
CanRLock(m) == m.w = NoThread
IsWriter(o) == o \in {"Create", "Update", "Delete"}

\* ---------------------------------------------------------------- twin

\* (mutant) time.Now() read once per field
NewDigitalTwin_TwoReadings(id, twinType, t) ==
    [ID |-> id, Type |-> twinType, Definition |-> "", CreatedAt |-> t, ModifiedAt |-> t + 1]

NewDigitalTwin(id, twinType, t) ==
    [ID |-> id, Type |-> twinType, Definition |-> "", CreatedAt |-> t, ModifiedAt |-> t]

\* A caller constructs a twin: twin.NewDigitalTwin(id, type).
New(id, twinType, limit) ==
    /\ \E r \in 1..limit :
         /\ heap[r] = NoTwin
         /\ \A q \in Refs : q < r => heap[q] # NoTwin
         /\ heap' = [heap EXCEPT ![r] = NewDigitalTwin(id, twinType, now)]
         /\ made' = [made EXCEPT ![r] = [id |-> id, type |-> twinType]]
    /\ UNCHANGED <<now, srvVars, twins, regMutex, pc, call, exists, ret, lastOK, busVars, twinVars, fsVars>>

Tick ==
    /\ now < MaxClock
    /\ now' = now + 1
    /\ UNCHANGED <<srvVars, heap, twins, regMutex, pc, call, exists, ret, lastOK, made, busVars, twinVars, fsVars>>

\* ------------------------------------------------------------ registry

\* The id a call is about: dt.ID for Create/Update, the argument for Get/Delete.
CallID(c) == IF c.op \in {"Create", "Update"} THEN heap[c.dt].ID ELSE c.id

\* A goroutine enters r.Create(dt), r.Update(dt), r.Get(id), r.Delete(id) or r.List().
Call(t, c) ==
    /\ pc[t] = "idle"
    /\ pc' = [pc EXCEPT ![t] = "lock"]
    /\ call' = [call EXCEPT ![t] = c]
    /\ ret' = [ret EXCEPT ![t] = NoRet]
    /\ UNCHANGED <<now, srvVars, heap, twins, regMutex, exists, lastOK, made, busVars, twinVars, fsVars>>

CallCreate(t) ==
    \E r \in Allocated : Call(t, [op |-> "Create", id |-> "", dt |-> r, keep |-> FALSE])
CallUpdate(t) ==
    \E r \in Allocated : Call(t, [op |-> "Update", id |-> "", dt |-> r, keep |-> FALSE])
CallGet(t) ==
    \E id \in IDs : Call(t, [op |-> "Get", id |-> id, dt |-> NilRef, keep |-> FALSE])
CallDelete(t) ==
    \E id \in IDs : Call(t, [op |-> "Delete", id |-> id, dt |-> NilRef, keep |-> FALSE])
CallList(t, keep) ==
    Call(t, [op |-> "List", id |-> "", dt |-> NilRef, keep |-> keep])

\* A worker of TestRegistryConcurrency: dt := twin.NewDigitalTwin(id, "sensor"), then
\* it enters reg.Create(dt) and reads the error afterwards.
GoCreate(t, id) ==
    /\ pc[t] = "idle"
    /\ \E r \in Refs :
         /\ heap[r] = NoTwin
         /\ \A q \in Refs : q < r => heap[q] # NoTwin
         /\ heap' = [heap EXCEPT ![r] = NewDigitalTwin(id, "sensor", now)]
         /\ made' = [made EXCEPT ![r] = [id |-> id, type |-> "sensor"]]
         /\ call' = [call EXCEPT ![t] = [op |-> "Create", id |-> "", dt |-> r, keep |-> TRUE]]
    /\ pc' = [pc EXCEPT ![t] = "lock"]
    /\ ret' = [ret EXCEPT ![t] = NoRet]
    /\ UNCHANGED <<now, srvVars, twins, regMutex, exists, lastOK, busVars, twinVars, fsVars>>

\* r.mutex.Lock() / r.mutex.RLock()
Lock(t) ==
    /\ pc[t] = "lock"
    /\ IF IsWriter(call[t].op)
         THEN /\ CanLock(regMutex)
              /\ regMutex' = [regMutex EXCEPT !.w = t]
         ELSE /\ CanRLock(regMutex)
              /\ regMutex' = [regMutex EXCEPT !.r = @ \cup {t}]
    /\ pc' = [pc EXCEPT ![t] = "lookup"]
    /\ UNCHANGED <<now, srvVars, heap, twins, call, exists, ret, lastOK, made, busVars, twinVars, fsVars>>

\* `_, exists := r.twins[id]` (Create, Update, Delete) and `dt, exists := r.twins[id]` (Get)
Lookup(t) ==
    /\ pc[t] = "lookup"
    /\ call[t].op \in {"Create", "Update", "Get", "Delete"}
    /\ exists' = [exists EXCEPT ![t] = CallID(call[t]) \in DOMAIN twins]
    /\ pc' = [pc EXCEPT ![t] = "act"]
    /\ UNCHANGED <<now, srvVars, heap, twins, regMutex, call, ret, lastOK, made, busVars, twinVars, fsVars>>

Return(t, err, dt, list) ==
    /\ ret' = [ret EXCEPT ![t] = [err |-> err, dt |-> dt, list |-> list]]
    /\ pc' = [pc EXCEPT ![t] = "unlock"]

\* (mutant) a duplicate id is reported and the entry replaced all the same
Create_Overwrite(t) ==
    /\ pc[t] = "act" /\ call[t].op = "Create"
    /\ twins' = MapPut(twins, heap[call[t].dt].ID, call[t].dt)
    /\ IF exists[t]
         THEN /\ Return(t, ErrTwinAlreadyExists, NilRef, {})
              /\ UNCHANGED lastOK
         ELSE /\ lastOK' = [lastOK EXCEPT ![heap[call[t].dt].ID] =
                                                [op |-> "create", dt |-> call[t].dt]]
              /\ Return(t, NilErr, NilRef, {})
    /\ UNCHANGED <<now, srvVars, heap, regMutex, call, exists, made, busVars, twinVars, fsVars>>

Create(t) ==
    /\ pc[t] = "act" /\ call[t].op = "Create"
    /\ IF exists[t]
         THEN /\ Return(t, ErrTwinAlreadyExists, NilRef, {})
              /\ UNCHANGED <<twins, lastOK>>
         ELSE /\ twins' = MapPut(twins, heap[call[t].dt].ID, call[t].dt)
              /\ lastOK' = [lastOK EXCEPT ![heap[call[t].dt].ID] =
                                                [op |-> "create", dt |-> call[t].dt]]
              /\ Return(t, NilErr, NilRef, {})
    /\ UNCHANGED <<now, srvVars, heap, regMutex, call, exists, made, busVars, twinVars, fsVars>>

Get(t) ==
    /\ pc[t] = "act" /\ call[t].op = "Get"
    /\ IF ~exists[t]
         THEN Return(t, ErrTwinNotFound, NilRef, {})
         ELSE Return(t, NilErr, twins[call[t].id], {})
    /\ UNCHANGED <<now, srvVars, heap, twins, regMutex, call, exists, lastOK, made, busVars, twinVars, fsVars>>

\* (mutant) no check that the id is present: an upsert
Update_Upsert(t) ==
    /\ pc[t] = "act" /\ call[t].op = "Update"
    /\ twins' = MapPut(twins, heap[call[t].dt].ID, call[t].dt)
    /\ Return(t, NilErr, NilRef, {})
    /\ UNCHANGED <<now, srvVars, heap, regMutex, call, exists, lastOK, made, busVars, twinVars, fsVars>>

\* (mutant) the Registry stores a copy of the twin it was given: a new object with
\* the fields of the argument and an Attributes map of its own
Update_Copy(t) ==
    /\ pc[t] = "act" /\ call[t].op = "Update"
    /\ IF ~exists[t]
         THEN /\ Return(t, ErrTwinNotFound, NilRef, {})
              /\ UNCHANGED <<twins, heap, maps>>
         ELSE /\ \E r \in Refs :
                   /\ heap[r] = NoTwin
                   /\ \A q \in Refs : q < r => heap[q] # NoTwin
                   /\ heap' = [heap EXCEPT ![r] = heap[call[t].dt]]
                   /\ maps' = [maps EXCEPT ![AttrMap(r)] = maps[AttrMap(call[t].dt)]]
                   /\ twins' = MapPut(twins, heap[call[t].dt].ID, r)
              /\ Return(t, NilErr, NilRef, {})
    /\ UNCHANGED <<now, srvVars, regMutex, call, exists, lastOK, made, busVars, twinVars>>
    /\ UNCHANGED <<arrays, feature, fpc, fcall, hold, find>>

Update(t) ==
    /\ pc[t] = "act" /\ call[t].op = "Update"
    /\ IF ~exists[t]
         THEN /\ Return(t, ErrTwinNotFound, NilRef, {})
              /\ UNCHANGED twins
         ELSE /\ twins' = MapPut(twins, heap[call[t].dt].ID, call[t].dt)
              /\ Return(t, NilErr, NilRef, {})
    /\ UNCHANGED <<now, srvVars, heap, regMutex, call, exists, lastOK, made, busVars, twinVars, fsVars>>

\* (mutant) delete() of an absent key is a no-op in Go, and no error is returned
Delete_NoCheck(t) ==
    /\ pc[t] = "act" /\ call[t].op = "Delete"
    /\ twins' = MapDelete(twins, call[t].id)
    /\ lastOK' = [lastOK EXCEPT ![call[t].id] = [op |-> "delete", dt |-> NilRef]]
    /\ Return(t, NilErr, NilRef, {})
    /\ UNCHANGED <<now, srvVars, heap, regMutex, call, exists, made, busVars, twinVars, fsVars>>

Delete(t) ==
    /\ pc[t] = "act" /\ call[t].op = "Delete"
    /\ IF ~exists[t]
         THEN /\ Return(t, ErrTwinNotFound, NilRef, {})
              /\ UNCHANGED <<twins, lastOK>>
         ELSE /\ twins' = MapDelete(twins, call[t].id)
              /\ lastOK' = [lastOK EXCEPT ![call[t].id] = [op |-> "delete", dt |-> NilRef]]
              /\ Return(t, NilErr, NilRef, {})
    /\ UNCHANGED <<now, srvVars, heap, regMutex, call, exists, made, busVars, twinVars, fsVars>>

\* The slice List builds holds every value of the map, in the map's iteration order,
\* which Go leaves unspecified: the result is kept as the set of its elements.
\* (mutant) make([]*T, len(r.twins)) instead of make([]*T, 0, len(r.twins)): the
\* slice starts with len(r.twins) nil entries
List_MakeLen(t) ==
    /\ pc[t] = "lookup" /\ call[t].op = "List"
    /\ Return(t, NilErr, NilRef,
              {twins[id] : id \in DOMAIN twins} \cup (IF twins = EmptyMap THEN {} ELSE {NilRef}))
    /\ UNCHANGED <<now, srvVars, heap, twins, regMutex, call, exists, lastOK, made, busVars, twinVars, fsVars>>

List(t) ==
    /\ pc[t] = "lookup" /\ call[t].op = "List"
    /\ Return(t, NilErr, NilRef, {twins[id] : id \in DOMAIN twins})
    /\ UNCHANGED <<now, srvVars, heap, twins, regMutex, call, exists, lastOK, made, busVars, twinVars, fsVars>>

\* defer r.mutex.Unlock() / defer r.mutex.RUnlock(), and the return to the caller
Unlock(t) ==
    /\ pc[t] = "unlock"
    /\ regMutex' = IF IsWriter(call[t].op)
                     THEN [regMutex EXCEPT !.w = NoThread]
                     ELSE [regMutex EXCEPT !.r = @ \ {t}]
    /\ IF call[t].keep
         THEN /\ pc' = [pc EXCEPT ![t] = "done"]
              /\ UNCHANGED <<call, exists, ret>>
         ELSE /\ pc' = [pc EXCEPT ![t] = "idle"]
              /\ call' = [call EXCEPT ![t] = NoCall]
              /\ exists' = [exists EXCEPT ![t] = FALSE]
              /\ ret' = [ret EXCEPT ![t] = NoRet]
    /\ UNCHANGED <<now, srvVars, heap, twins, lastOK, made, busVars, twinVars, fsVars>>

\* ------------------------------------------------------- twin features

\* A goroutine enters dt.AddFeature(id, feature), dt.UpdateFeature(id, feature) or
\* dt.RemoveFeature(id).
TwinCall(t, c) ==
    /\ tpc[t] = "idle"
    /\ tpc' = [tpc EXCEPT ![t] = "lock"]
    /\ tcall' = [tcall EXCEPT ![t] = c]
    /\ tret' = [tret EXCEPT ![t] = "none"]
    /\ UNCHANGED <<features, twinMutex, texists, regVars, srvVars, busVars, fsVars>>

CallAddFeature(t, keep) ==
    \E r \in Allocated, id \in FeatureIDs, f \in FeatureStates :
        TwinCall(t, [op |-> "AddFeature", dt |-> r, id |-> id, feature |-> f, keep |-> keep])
CallUpdateFeature(t) ==
    \E r \in Allocated, id \in FeatureIDs, f \in FeatureStates :
        TwinCall(t, [op |-> "UpdateFeature", dt |-> r, id |-> id, feature |-> f, keep |-> FALSE])
CallRemoveFeature(t) ==
    \E r \in Allocated, id \in FeatureIDs :
        TwinCall(t, [op |-> "RemoveFeature", dt |-> r, id |-> id,
                     feature |-> NoFeatureState, keep |-> FALSE])

\* (mutant) no dt.mutex.Lock(): the call goes on whoever holds the mutex
TwinLock_None(t) ==
    /\ tpc[t] = "lock"
    /\ tpc' = [tpc EXCEPT ![t] = "lookup"]
    /\ UNCHANGED <<features, twinMutex, tcall, texists, tret, regVars, srvVars, busVars, fsVars>>

\* dt.mutex.Lock()
TwinLock(t) ==
    /\ tpc[t] = "lock"
    /\ CanLock(twinMutex[tcall[t].dt])
    /\ twinMutex' = [twinMutex EXCEPT ![tcall[t].dt].w = t]
    /\ tpc' = [tpc EXCEPT ![t] = "lookup"]
    /\ UNCHANGED <<features, tcall, texists, tret, regVars, srvVars, busVars, fsVars>>

\* `_, exists := dt.Features[id]`
TwinLookup(t) ==
    /\ tpc[t] = "lookup"
    /\ tcall[t].op \in {"AddFeature", "UpdateFeature", "RemoveFeature"}
    /\ texists' = [texists EXCEPT ![t] = tcall[t].id \in DOMAIN features[tcall[t].dt]]
    /\ tpc' = [tpc EXCEPT ![t] = "act"]
    /\ UNCHANGED <<features, twinMutex, tcall, tret, regVars, srvVars, busVars, fsVars>>

TwinReturn(t, err) ==
    /\ tret' = [tret EXCEPT ![t] = err]
    /\ tpc' = [tpc EXCEPT ![t] = "unlock"]

\* (mutant) the time of the change is not recorded
Touch_None(r) == heap' = heap

\* dt.ModifiedAt = time.Now()
Touch(r) == heap' = [heap EXCEPT ![r].ModifiedAt = now]

AddFeature(t) ==
    /\ tpc[t] = "act" /\ tcall[t].op = "AddFeature"
    /\ IF texists[t]
         THEN /\ TwinReturn(t, ErrFeatureAlreadyExists)
              /\ UNCHANGED <<features, heap>>
         ELSE /\ features' = [features EXCEPT ![tcall[t].dt] =
                                 MapPut(@, tcall[t].id, tcall[t].feature)]
              /\ Touch(tcall[t].dt)
              /\ TwinReturn(t, NilErr)
    /\ UNCHANGED <<twinMutex, tcall, texists, busVars, fsVars>>
    /\ UNCHANGED <<now, srvVars, twins, regMutex, pc, call, exists, ret, lastOK, made>>

\* (mutant) no check that the feature is present: an upsert
UpdateFeature_Upsert(t) ==
    /\ tpc[t] = "act" /\ tcall[t].op = "UpdateFeature"
    /\ features' = [features EXCEPT ![tcall[t].dt] = MapPut(@, tcall[t].id, tcall[t].feature)]
    /\ Touch(tcall[t].dt)
    /\ TwinReturn(t, NilErr)
    /\ UNCHANGED <<twinMutex, tcall, texists, busVars, fsVars>>
    /\ UNCHANGED <<now, srvVars, twins, regMutex, pc, call, exists, ret, lastOK, made>>

\* (mutant) a merge: a definition the stored feature has is kept when the given one
\* has none
UpdateFeature_KeepDefinition(t) ==
    /\ tpc[t] = "act" /\ tcall[t].op = "UpdateFeature"
    /\ IF ~texists[t]
         THEN /\ TwinReturn(t, ErrFeatureNotFound)
              /\ UNCHANGED <<features, heap>>
         ELSE /\ features' = [features EXCEPT ![tcall[t].dt] =
                                 MapPut(@, tcall[t].id,
                                        IF tcall[t].feature.Definition = NilRef
                                          THEN [tcall[t].feature EXCEPT !.Definition =
                                                   features[tcall[t].dt][tcall[t].id].Definition]
                                          ELSE tcall[t].feature)]
              /\ Touch(tcall[t].dt)
              /\ TwinReturn(t, NilErr)
    /\ UNCHANGED <<twinMutex, tcall, texists, busVars, fsVars>>
    /\ UNCHANGED <<now, srvVars, twins, regMutex, pc, call, exists, ret, lastOK, made>>

UpdateFeature(t) ==
    /\ tpc[t] = "act" /\ tcall[t].op = "UpdateFeature"
    /\ IF ~texists[t]
         THEN /\ TwinReturn(t, ErrFeatureNotFound)
              /\ UNCHANGED <<features, heap>>
         ELSE /\ features' = [features EXCEPT ![tcall[t].dt] =
                                 MapPut(@, tcall[t].id, tcall[t].feature)]
              /\ Touch(tcall[t].dt)
              /\ TwinReturn(t, NilErr)
    /\ UNCHANGED <<twinMutex, tcall, texists, busVars, fsVars>>
    /\ UNCHANGED <<now, srvVars, twins, regMutex, pc, call, exists, ret, lastOK, made>>

RemoveFeature(t) ==
    /\ tpc[t] = "act" /\ tcall[t].op = "RemoveFeature"
    /\ IF ~texists[t]
         THEN /\ TwinReturn(t, ErrFeatureNotFound)
              /\ UNCHANGED <<features, heap>>
         ELSE /\ features' = [features EXCEPT ![tcall[t].dt] = MapDelete(@, tcall[t].id)]
              /\ Touch(tcall[t].dt)
              /\ TwinReturn(t, NilErr)
    /\ UNCHANGED <<twinMutex, tcall, texists, busVars, fsVars>>
    /\ UNCHANGED <<now, srvVars, twins, regMutex, pc, call, exists, ret, lastOK, made>>

\* defer dt.mutex.Unlock(), and the return to the caller
TwinUnlock(t) ==
    /\ tpc[t] = "unlock"
    /\ twinMutex' = [twinMutex EXCEPT ![tcall[t].dt].w = NoThread]
    /\ IF tcall[t].keep
         THEN /\ tpc' = [tpc EXCEPT ![t] = "done"]
              /\ UNCHANGED <<tcall, texists, tret>>
         ELSE /\ tpc' = [tpc EXCEPT ![t] = "idle"]
              /\ tcall' = [tcall EXCEPT ![t] = NoTwinCall]
              /\ texists' = [texists EXCEPT ![t] = FALSE]
              /\ tret' = [tret EXCEPT ![t] = "none"]
    /\ UNCHANGED <<features, regVars, srvVars, busVars, fsVars>>

\* ----------------------------------------------------- twin attributes

\* dt.SetAttribute(key, value), dt.RemoveAttribute(key) and dt.SetDefinition(definition)
\* take dt.mutex.Lock() as the feature calls do and have no lookup: the statement
\* after the lock is the assignment.
CallSetAttribute(t, values) ==
    \E r \in Allocated, k \in AttrKeys, v \in values :
        TwinCall(t, [op |-> "SetAttribute", dt |-> r, key |-> k, value |-> v, keep |-> FALSE])
CallRemoveAttribute(t) ==
    \E r \in Allocated, k \in AttrKeys :
        TwinCall(t, [op |-> "RemoveAttribute", dt |-> r, key |-> k, keep |-> FALSE])
CallSetDefinition(t) ==
    \E r \in Allocated, d \in Definitions :
        TwinCall(t, [op |-> "SetDefinition", dt |-> r, definition |-> d, keep |-> FALSE])

SetAttribute(t) ==
    /\ tpc[t] = "lookup" /\ tcall[t].op = "SetAttribute"
    /\ maps' = [maps EXCEPT ![AttrMap(tcall[t].dt)].kv = MapPut(@, tcall[t].key, tcall[t].value)]
    /\ Touch(tcall[t].dt)
    /\ tpc' = [tpc EXCEPT ![t] = "unlock"]
    /\ UNCHANGED <<features, twinMutex, tcall, texists, tret, busVars>>
    /\ UNCHANGED <<now, srvVars, twins, regMutex, pc, call, exists, ret, lastOK, made>>
    /\ UNCHANGED <<arrays, feature, fpc, fcall, hold, find>>

RemoveAttribute(t) ==
    /\ tpc[t] = "lookup" /\ tcall[t].op = "RemoveAttribute"
    /\ maps' = [maps EXCEPT ![AttrMap(tcall[t].dt)].kv = MapDelete(@, tcall[t].key)]
    /\ Touch(tcall[t].dt)
    /\ tpc' = [tpc EXCEPT ![t] = "unlock"]
    /\ UNCHANGED <<features, twinMutex, tcall, texists, tret, busVars>>
    /\ UNCHANGED <<now, srvVars, twins, regMutex, pc, call, exists, ret, lastOK, made>>
    /\ UNCHANGED <<arrays, feature, fpc, fcall, hold, find>>

SetDefinition(t) ==
    /\ tpc[t] = "lookup" /\ tcall[t].op = "SetDefinition"
    /\ heap' = [heap EXCEPT ![tcall[t].dt].Definition = tcall[t].definition,
                            ![tcall[t].dt].ModifiedAt = now]
    /\ tpc' = [tpc EXCEPT ![t] = "unlock"]
    /\ UNCHANGED <<features, twinMutex, tcall, texists, tret, busVars, fsVars>>
    /\ UNCHANGED <<now, srvVars, twins, regMutex, pc, call, exists, ret, lastOK, made>>

\* A goroutine enters a reading call of a twin: dt.GetAttribute(key),
\* dt.GetAllAttributes(), dt.GetFeature(id) or dt.GetAllFeatures().
TwinRCall(t, c) ==
    /\ tpc[t] = "idle"
    /\ tpc' = [tpc EXCEPT ![t] = "rlock"]
    /\ tcall' = [tcall EXCEPT ![t] = c]
    /\ UNCHANGED <<features, twinMutex, texists, tret, regVars, srvVars, busVars, fsVars>>

CallGetAttribute(t) ==
    \E r \in Allocated, k \in AttrKeys : TwinRCall(t, [op |-> "GetAttribute", dt |-> r, key |-> k])
CallGetAllAttributes(t) ==
    \E r \in Allocated : TwinRCall(t, [op |-> "GetAllAttributes", dt |-> r])
CallGetFeature(t) ==
    \E r \in Allocated, id \in FeatureIDs : TwinRCall(t, [op |-> "GetFeature", dt |-> r, id |-> id])
CallGetAllFeatures(t) ==
    \E r \in Allocated : TwinRCall(t, [op |-> "GetAllFeatures", dt |-> r])

\* dt.mutex.RLock()
TwinRLock(t) ==
    /\ tpc[t] = "rlock"
    /\ CanRLock(twinMutex[tcall[t].dt])
    /\ twinMutex' = [twinMutex EXCEPT ![tcall[t].dt].r = @ \cup {t}]
    /\ tpc' = [tpc EXCEPT ![t] = "read"]
    /\ UNCHANGED <<features, tcall, texists, tret, regVars, srvVars, busVars, fsVars>>

\* defer dt.mutex.RUnlock(), and the return to the caller
TwinRUnlock(t) ==
    /\ twinMutex' = [twinMutex EXCEPT ![tcall[t].dt].r = @ \ {t}]
    /\ tpc' = [tpc EXCEPT ![t] = "idle"]
    /\ tcall' = [tcall EXCEPT ![t] = NoTwinCall]

\* `value, exists := dt.Attributes[key]; return value, exists`
GetAttribute(t) ==
    /\ tpc[t] = "read" /\ tcall[t].op = "GetAttribute"
    /\ LET m == maps[AttrMap(tcall[t].dt)].kv
           k == tcall[t].key
       IN hold' = [hold EXCEPT ![t].exists = k \in DOMAIN m,
                               ![t].value = IF k \in DOMAIN m THEN m[k] ELSE NilValue]
    /\ TwinRUnlock(t)
    /\ UNCHANGED <<features, texists, tret, regVars, srvVars, busVars>>
    /\ UNCHANGED <<maps, arrays, feature, fpc, fcall, find>>

\* `attrs := make(map[string]interface{}, len(dt.Attributes))`, filled entry by entry
GetAllAttributes(t) ==
    /\ tpc[t] = "read" /\ tcall[t].op = "GetAllAttributes"
    /\ FreeMaps # {}
    /\ LET m == FirstFree(FreeMaps)
       IN /\ maps' = [maps EXCEPT ![m] = [used |-> TRUE, kv |-> maps[AttrMap(tcall[t].dt)].kv]]
          /\ hold' = [hold EXCEPT ![t].map = m]
    /\ TwinRUnlock(t)
    /\ UNCHANGED <<features, texists, tret, regVars, srvVars, busVars>>
    /\ UNCHANGED <<arrays, feature, fpc, fcall, find>>

\* `feature, exists := dt.Features[id]; return feature, exists`: the struct is
\* copied field by field into the caller's variable, so the copy has the stored
\* struct's map and slice references and a mutex of its own; an absent id gives the
\* zero value.
GetFeature(t) ==
    /\ tpc[t] = "read" /\ tcall[t].op = "GetFeature"
    /\ LET fs == features[tcall[t].dt]
           id == tcall[t].id
       IN /\ feature' = [feature EXCEPT ![t] = IF id \in DOMAIN fs THEN fs[id]
                                                                    ELSE NoFeatureState]
          /\ hold' = [hold EXCEPT ![t].exists = id \in DOMAIN fs, ![t].src = "get"]
    /\ TwinRUnlock(t)
    /\ UNCHANGED <<features, texists, tret, regVars, srvVars, busVars>>
    /\ UNCHANGED <<maps, arrays, fpc, fcall, find>>

\* `features := make(map[string]FeatureState, len(dt.Features))`, filled entry by
\* entry: every value is a struct copy as in GetFeature.
GetAllFeatures(t) ==
    /\ tpc[t] = "read" /\ tcall[t].op = "GetAllFeatures"
    /\ hold' = [hold EXCEPT ![t].all = features[tcall[t].dt]]
    /\ TwinRUnlock(t)
    /\ UNCHANGED <<features, texists, tret, regVars, srvVars, busVars>>
    /\ UNCHANGED <<maps, arrays, feature, fpc, fcall, find>>

\* The caller takes one FeatureState out of the map GetAllFeatures returned:
\* `feature := features[id]`.
PickFeature(t, id) ==
    /\ tpc[t] = "idle" /\ fpc[t] = "idle"
    /\ id \in DOMAIN hold[t].all
    /\ feature' = [feature EXCEPT ![t] = hold[t].all[id]]
    /\ hold' = [hold EXCEPT ![t].src = "get"]
    /\ UNCHANGED <<maps, arrays, fpc, fcall, find, regVars, srvVars, busVars, twinVars>>

\* The caller passes its local FeatureState: dt.AddFeature(id, feature) and
\* dt.UpdateFeature(id, feature) take the struct by value.
CallAddLocal(t) ==
    /\ fpc[t] = "idle" /\ feature[t] # NoFeatureState
    /\ \E r \in Allocated, id \in FeatureIDs :
         TwinCall(t, [op |-> "AddFeature", dt |-> r, id |-> id, feature |-> feature[t],
                      keep |-> FALSE])
CallUpdateLocal(t, keep) ==
    /\ fpc[t] = "idle" /\ feature[t] # NoFeatureState
    /\ \E r \in Allocated, id \in FeatureIDs :
         TwinCall(t, [op |-> "UpdateFeature", dt |-> r, id |-> id, feature |-> feature[t],
                      keep |-> keep])

\* ------------------------------------------------------- feature state

\* The FeatureState objects methods are called on are the callers' local variables
\* (`feature, exists := dt.GetFeature(id)`, `feature = *twin.NewFeatureState()`): a
\* FeatureState stored in dt.Features is not addressable.

Elems(a) == IF a = NilRef THEN <<>> ELSE arrays[a].elems
KV(m) == maps[m].kv

\* NewFeatureState(), dereferenced into the caller's variable
NewFeatureState(t) ==
    /\ tpc[t] = "idle" /\ fpc[t] = "idle"
    /\ Cardinality(FreeMaps) >= 2
    /\ LET p == FirstFree(FreeMaps)
           d == FirstFree(FreeMaps \ {p})
       IN /\ maps' = [maps EXCEPT ![p] = [used |-> TRUE, kv |-> EmptyMap],
                                  ![d] = [used |-> TRUE, kv |-> EmptyMap]]
          /\ feature' = [feature EXCEPT ![t] =
                           [Properties |-> p, DesiredProps |-> d, Definition |-> NilRef,
                            LastModified |-> now, mutex |-> Unlocked]]
    /\ hold' = [hold EXCEPT ![t].src = "new"]
    /\ UNCHANGED <<arrays, fpc, fcall, find, regVars, srvVars, busVars, twinVars>>

IsFsWriter(o) == o \in {"SetProperty", "RemoveProperty", "SetDesiredProperty",
                        "RemoveDesiredProperty", "SetDefinition"}

\* The map a call reads or writes: fs.Properties or fs.DesiredProps.
MapOf(fs, o) ==
    IF o \in {"SetProperty", "RemoveProperty", "GetProperty", "GetAllProperties"}
      THEN fs.Properties
      ELSE IF o \in {"SetDesiredProperty", "RemoveDesiredProperty", "GetDesiredProperty",
                     "GetAllDesiredProperties"}
             THEN fs.DesiredProps
             ELSE NilRef

\* Goroutine t enters a method of the FeatureState c.obj, its own variable or, through
\* a pointer it was given, that of another goroutine, and takes fs.mutex.Lock() or
\* fs.mutex.RLock(): the mutex is a field of that struct.
FsCall(t, c) ==
    /\ tpc[t] = "idle" /\ fpc[t] = "idle"
    /\ IF IsFsWriter(c.op)
         THEN /\ CanLock(feature[c.obj].mutex)
              /\ feature' = [feature EXCEPT ![c.obj].mutex.w = t]
         ELSE /\ CanRLock(feature[c.obj].mutex)
              /\ feature' = [feature EXCEPT ![c.obj].mutex.r = @ \cup {t}]
    /\ fpc' = [fpc EXCEPT ![t] = "act"]
    /\ fcall' = [fcall EXCEPT ![t] = c]
    /\ UNCHANGED <<maps, arrays, hold, find, regVars, srvVars, busVars, twinVars>>

CallSetProperty(t, o) ==
    \E k \in PropKeys, v \in PropValues : FsCall(t, [op |-> "SetProperty", obj |-> o, key |-> k, value |-> v])
CallRemoveProperty(t, o) ==
    \E k \in PropKeys : FsCall(t, [op |-> "RemoveProperty", obj |-> o, key |-> k])
CallSetDesiredProperty(t, o) ==
    \E k \in PropKeys, v \in PropValues :
        FsCall(t, [op |-> "SetDesiredProperty", obj |-> o, key |-> k, value |-> v])
CallRemoveDesiredProperty(t, o) ==
    \E k \in PropKeys : FsCall(t, [op |-> "RemoveDesiredProperty", obj |-> o, key |-> k])
CallGetProperty(t, o) ==
    \E k \in PropKeys : FsCall(t, [op |-> "GetProperty", obj |-> o, key |-> k])
CallGetDesiredProperty(t, o) ==
    \E k \in PropKeys : FsCall(t, [op |-> "GetDesiredProperty", obj |-> o, key |-> k])
CallGetAllProperties(t, o) == FsCall(t, [op |-> "GetAllProperties", obj |-> o])
CallGetAllDesiredProperties(t, o) == FsCall(t, [op |-> "GetAllDesiredProperties", obj |-> o])
CallFsSetDefinition(t, o) ==
    /\ hold[t].own # NilRef
    /\ FsCall(t, [op |-> "SetDefinition", obj |-> o, list |-> hold[t].own])
CallGetDefinition(t, o) == FsCall(t, [op |-> "GetDefinition", obj |-> o])

\* The FeatureState and the map of goroutine t's current call.
Obj(t) == feature[fcall[t].obj]
TargetMap(t) == MapOf(Obj(t), fcall[t].op)

\* Another goroutine is inside a call on the same map, under a mutex of its own, and
\* one of the two writes: a data race.
Racing(t) ==
    \E u \in Threads \ {t} :
        /\ fpc[u] = "act"
        /\ TargetMap(u) # NilRef
        /\ TargetMap(u) = TargetMap(t)
        /\ (IsFsWriter(fcall[u].op) \/ IsFsWriter(fcall[t].op))

\* defer fs.mutex.Unlock() / defer fs.mutex.RUnlock(), and the return to the caller
FsReturn(t, fs) ==
    /\ feature' = [feature EXCEPT ![fcall[t].obj] =
                     [fs EXCEPT !.mutex = IF IsFsWriter(fcall[t].op)
                                            THEN [@ EXCEPT !.w = NoThread]
                                            ELSE [@ EXCEPT !.r = @ \ {t}]]]
    /\ fpc' = [fpc EXCEPT ![t] = "idle"]
    /\ fcall' = [fcall EXCEPT ![t] = NoFsCall]

\* `fs.LastModified = time.Now()`
Touched(fs) == [fs EXCEPT !.LastModified = now]

\* The Go run time stops the program: a write to a nil map, or a map written by two
\* goroutines at once ("fatal error: concurrent map writes"), which the run time
\* detects in some runs and not in others.
Fatal(t, what) ==
    /\ panic' = what
    /\ UNCHANGED <<subscribers, chans, psMutex, pub, published, sentTo, lastRecv,
                   subTopic, removed>>
    /\ UNCHANGED <<maps, arrays, feature, fpc, fcall, hold, find>>

\* The body of a call that writes the map m of the local FeatureState: the new
\* contents are kv.
FsWrite(t, m, kv) ==
    \/ /\ maps' = [maps EXCEPT ![m].kv = kv]
       /\ FsReturn(t, Touched(Obj(t)))
       /\ UNCHANGED <<arrays, hold, find, busVars>>
    \/ /\ Racing(t)
       /\ Fatal(t, "concurrent map writes")

\* `fs.Properties[key] = value` / `fs.DesiredProps[key] = value`
SetProperty(t) ==
    /\ fpc[t] = "act" /\ fcall[t].op \in {"SetProperty", "SetDesiredProperty"}
    /\ panic = "none"
    /\ LET m == TargetMap(t)
       IN IF m = NilRef
            THEN Fatal(t, "assignment to entry in nil map")
            ELSE FsWrite(t, m, MapPut(KV(m), fcall[t].key, fcall[t].value))
    /\ UNCHANGED <<regVars, srvVars, twinVars>>

\* (mutant) an absent key leaves the FeatureState as it was
RemoveProperty_IfPresent(t) ==
    /\ fpc[t] = "act" /\ fcall[t].op \in {"RemoveProperty", "RemoveDesiredProperty"}
    /\ panic = "none"
    /\ LET m == TargetMap(t)
       IN IF m = NilRef \/ fcall[t].key \notin DOMAIN KV(m)
            THEN /\ FsReturn(t, Obj(t))
                 /\ UNCHANGED <<maps, arrays, hold, find, busVars>>
            ELSE FsWrite(t, m, MapDelete(KV(m), fcall[t].key))
    /\ UNCHANGED <<regVars, srvVars, twinVars>>

\* `delete(fs.Properties, key)` / `delete(fs.DesiredProps, key)`; delete() of a nil
\* map is a no-op
RemoveProperty(t) ==
    /\ fpc[t] = "act" /\ fcall[t].op \in {"RemoveProperty", "RemoveDesiredProperty"}
    /\ panic = "none"
    /\ LET m == TargetMap(t)
       IN IF m = NilRef
            THEN /\ FsReturn(t, Touched(Obj(t)))
                 /\ UNCHANGED <<maps, arrays, hold, find, busVars>>
            ELSE FsWrite(t, m, MapDelete(KV(m), fcall[t].key))
    /\ UNCHANGED <<regVars, srvVars, twinVars>>

\* `value, exists := fs.Properties[key]` / `fs.DesiredProps[key]`; a nil map reads as
\* an empty one
GetProperty(t) ==
    /\ fpc[t] = "act" /\ fcall[t].op \in {"GetProperty", "GetDesiredProperty"}
    /\ panic = "none"
    /\ LET m == TargetMap(t)
           kv == IF m = NilRef THEN EmptyMap ELSE KV(m)
           k == fcall[t].key
       IN hold' = [hold EXCEPT ![t].exists = k \in DOMAIN kv,
                               ![t].value = IF k \in DOMAIN kv THEN kv[k] ELSE NilValue]
    /\ FsReturn(t, Obj(t))
    /\ UNCHANGED <<maps, arrays, find, regVars, srvVars, busVars, twinVars>>

\* (mutant) the map of the FeatureState itself is returned
GetAllProperties_Alias(t) ==
    /\ fpc[t] = "act" /\ fcall[t].op \in {"GetAllProperties", "GetAllDesiredProperties"}
    /\ panic = "none"
    /\ FreeMaps # {}
    /\ hold' = [hold EXCEPT ![t].map = TargetMap(t)]
    /\ FsReturn(t, Obj(t))
    /\ UNCHANGED <<maps, arrays, find, regVars, srvVars, busVars, twinVars>>

\* `props := make(map[string]interface{}, len(fs.Properties))`, filled entry by entry
GetAllProperties(t) ==
    /\ fpc[t] = "act" /\ fcall[t].op \in {"GetAllProperties", "GetAllDesiredProperties"}
    /\ panic = "none"
    /\ FreeMaps # {}
    /\ LET m == TargetMap(t)
           n == FirstFree(FreeMaps)
       IN /\ maps' = [maps EXCEPT ![n] = [used |-> TRUE,
                                          kv |-> IF m = NilRef THEN EmptyMap ELSE KV(m)]]
          /\ hold' = [hold EXCEPT ![t].map = n]
    /\ FsReturn(t, Obj(t))
    /\ UNCHANGED <<arrays, find, regVars, srvVars, busVars, twinVars>>

\* A slice of no elements has no backing array that could be shared.
NewArray(elems) ==
    IF elems = <<>> THEN NilRef ELSE FirstFree(FreeArrays)
Store(a, elems) ==
    IF a = NilRef THEN arrays ELSE [arrays EXCEPT ![a] = [used |-> TRUE, elems |-> elems]]
CanStore(elems) == elems = <<>> \/ FreeArrays # {}

\* (mutant) the caller's slice is stored as it is
FsSetDefinition_Alias(t) ==
    /\ fpc[t] = "act" /\ fcall[t].op = "SetDefinition"
    /\ panic = "none"
    /\ CanStore(Elems(fcall[t].list))
    /\ FsReturn(t, [Touched(Obj(t)) EXCEPT !.Definition = fcall[t].list])
    /\ UNCHANGED <<maps, arrays, hold, find, regVars, srvVars, busVars, twinVars>>

\* `fs.Definition = make([]string, len(definitions)); copy(fs.Definition, definitions)`
FsSetDefinition(t) ==
    /\ fpc[t] = "act" /\ fcall[t].op = "SetDefinition"
    /\ panic = "none"
    /\ CanStore(Elems(fcall[t].list))
    /\ LET a == NewArray(Elems(fcall[t].list))
       IN /\ arrays' = Store(a, Elems(fcall[t].list))
          /\ FsReturn(t, [Touched(Obj(t)) EXCEPT !.Definition = a])
    /\ UNCHANGED <<maps, hold, find, regVars, srvVars, busVars, twinVars>>

\* `definitions := make([]string, len(fs.Definition)); copy(definitions, fs.Definition)`
GetDefinition(t) ==
    /\ fpc[t] = "act" /\ fcall[t].op = "GetDefinition"
    /\ panic = "none"
    /\ CanStore(Elems(Obj(t).Definition))
    /\ LET a == NewArray(Elems(Obj(t).Definition))
       IN /\ arrays' = Store(a, Elems(Obj(t).Definition))
          /\ hold' = [hold EXCEPT ![t].list = a]
    /\ FsReturn(t, Obj(t))
    /\ UNCHANGED <<maps, find, regVars, srvVars, busVars, twinVars>>

\* The caller makes a list of its own: `definitions := []string{...}`.
MakeList(t, elems) ==
    /\ tpc[t] = "idle" /\ fpc[t] = "idle"
    /\ CanStore(elems)
    /\ LET a == NewArray(elems)
       IN /\ arrays' = Store(a, elems)
          /\ hold' = [hold EXCEPT ![t].own = a]
    /\ UNCHANGED <<maps, feature, fpc, fcall, find, regVars, srvVars, busVars, twinVars>>

\* The caller changes an element of a list it holds: the one it made or the one
\* GetDefinition returned.
WriteElem(t, a, i, d) ==
    /\ tpc[t] = "idle" /\ fpc[t] = "idle"
    /\ a # NilRef /\ a \in {hold[t].own, hold[t].list}
    /\ i \in 1..Len(arrays[a].elems)
    /\ arrays[a].elems[i] # d
    /\ arrays' = [arrays EXCEPT ![a].elems[i] = d]
    /\ UNCHANGED <<maps, feature, fpc, fcall, hold, find, regVars, srvVars, busVars, twinVars>>

\* The caller writes or deletes an entry of the map GetAllProperties,
\* GetAllDesiredProperties or GetAllAttributes returned.
WriteMap(t, k, v) ==
    /\ tpc[t] = "idle" /\ fpc[t] = "idle"
    /\ hold[t].map # NilRef
    /\ maps' = [maps EXCEPT ![hold[t].map].kv = MapPut(@, k, v)]
    /\ maps' # maps
    /\ UNCHANGED <<arrays, feature, fpc, fcall, hold, find, regVars, srvVars, busVars, twinVars>>

DeleteMap(t, k) ==
    /\ tpc[t] = "idle" /\ fpc[t] = "idle"
    /\ hold[t].map # NilRef
    /\ k \in DOMAIN KV(hold[t].map)
    /\ maps' = [maps EXCEPT ![hold[t].map].kv = MapDelete(@, k)]
    /\ UNCHANGED <<arrays, feature, fpc, fcall, hold, find, regVars, srvVars, busVars, twinVars>>

\* ------------------------------------------------------ registry scans

\* A goroutine enters r.FindByAttribute(key, value) or r.FindByFeature(featureID);
\* Lock takes r.mutex.RLock() for it and Unlock releases it.
CallFindByAttribute(t, values) ==
    /\ tpc[t] = "idle" /\ fpc[t] = "idle"
    /\ \E k \in AttrKeys, v \in values :
         Call(t, [op |-> "FindByAttribute", id |-> "", dt |-> NilRef, keep |-> FALSE,
                  key |-> k, value |-> v])
CallFindByFeature(t) ==
    /\ tpc[t] = "idle" /\ fpc[t] = "idle"
    /\ \E id \in FeatureIDs :
         Call(t, [op |-> "FindByFeature", id |-> "", dt |-> NilRef, keep |-> FALSE,
                  key |-> id])

IsFind(o) == o \in {"FindByAttribute", "FindByFeature"}

\* `var result []*twin.DigitalTwin`: the loop starts with a nil slice and no entry
\* visited.
FindStart(t) ==
    /\ pc[t] = "lookup" /\ IsFind(call[t].op)
    /\ find' = [find EXCEPT ![t] = NoFind]
    /\ pc' = [pc EXCEPT ![t] = "loop"]
    /\ UNCHANGED <<now, srvVars, heap, twins, regMutex, call, exists, ret, lastOK, made>>
    /\ UNCHANGED <<maps, arrays, feature, fpc, fcall, hold, busVars, twinVars>>

\* `for _, dt := range r.twins`: the next entry, in the order Go's map iteration
\* happens to take, or the end of the loop and `return result`.
FindNext(t) ==
    /\ pc[t] = "loop"
    /\ IF DOMAIN twins \subseteq find[t].seen
         THEN /\ pc' = [pc EXCEPT ![t] = "unlock"]
              /\ UNCHANGED find
         ELSE /\ \E id \in (DOMAIN twins) \ find[t].seen :
                   find' = [find EXCEPT ![t].seen = @ \cup {id}, ![t].cur = twins[id]]
              /\ pc' = [pc EXCEPT ![t] = "enter"]
    /\ UNCHANGED <<now, srvVars, heap, twins, regMutex, call, exists, ret, lastOK, made>>
    /\ UNCHANGED <<maps, arrays, feature, fpc, fcall, hold, busVars, twinVars>>

\* (mutant) the scan reads the twin without taking its mutex
FindEnter_NoLock(t) ==
    /\ pc[t] = "enter"
    /\ pc' = [pc EXCEPT ![t] = "read"]
    /\ UNCHANGED <<now, srvVars, heap, twins, regMutex, call, exists, ret, lastOK, made>>
    /\ UNCHANGED <<features, twinMutex, tpc, tcall, texists, tret, busVars, fsVars>>

\* dt.GetAttribute(key) / dt.GetFeature(featureID) called in the loop: dt.mutex.RLock(),
\* taken while r.mutex is held for reading
FindEnter(t) ==
    /\ pc[t] = "enter"
    /\ CanRLock(twinMutex[find[t].cur])
    /\ twinMutex' = [twinMutex EXCEPT ![find[t].cur].r = @ \cup {t}]
    /\ pc' = [pc EXCEPT ![t] = "read"]
    /\ UNCHANGED <<now, srvVars, heap, twins, regMutex, call, exists, ret, lastOK, made>>
    /\ UNCHANGED <<features, tpc, tcall, texists, tret, busVars, fsVars>>

\* `attrValue == value` of two interface values: values of different dynamic types
\* are unequal, values of one comparable type are compared by their contents, and the
\* comparison of two values of one type that is not comparable (a slice, a map)
\* panics.
TypeOf(v) == IF v \in ListValues THEN "[]string" ELSE "string"
Comparable(ty) == ty # "[]string"
SameValue(a, b) == TypeOf(a) = TypeOf(b) /\ a = b
ComparePanics(a, b) == TypeOf(a) = TypeOf(b) /\ ~Comparable(TypeOf(a))

\* (mutant) a twin matches when it lacks the feature
Found_Absent(t) ==
    IF call[t].op = "FindByAttribute"
      THEN LET kv == KV(AttrMap(find[t].cur))
           IN call[t].key \in DOMAIN kv /\ SameValue(kv[call[t].key], call[t].value)
      ELSE call[t].key \notin DOMAIN features[find[t].cur]

\* The entry of the loop matches.
Found(t) ==
    IF call[t].op = "FindByAttribute"
      THEN LET kv == KV(AttrMap(find[t].cur))
           IN call[t].key \in DOMAIN kv /\ SameValue(kv[call[t].key], call[t].value)
      ELSE call[t].key \in DOMAIN features[find[t].cur]

\* The comparison of this entry panics.
FindPanics(t) ==
    /\ call[t].op = "FindByAttribute"
    /\ LET kv == KV(AttrMap(find[t].cur))
       IN call[t].key \in DOMAIN kv /\ ComparePanics(kv[call[t].key], call[t].value)

\* The read under the twin's mutex, its RUnlock, and
\* `if exists && attrValue == value { result = append(result, dt) }` /
\* `if _, exists := dt.GetFeature(featureID); exists { result = append(result, dt) }`.
\* When the comparison panics, the deferred r.mutex.RUnlock() runs and the call does
\* not return.
FindRead(t) ==
    /\ pc[t] = "read"
    /\ twinMutex' = [twinMutex EXCEPT ![find[t].cur].r = @ \ {t}]
    /\ IF FindPanics(t)
         THEN /\ panic' = "comparing uncomparable type []string"
              /\ regMutex' = [regMutex EXCEPT !.r = @ \ {t}]
              /\ pc' = [pc EXCEPT ![t] = "panic"]
              /\ UNCHANGED find
         ELSE /\ find' = [find EXCEPT ![t].result = IF Found(t) THEN Append(@, find[t].cur)
                                                               ELSE @,
                                      ![t].cur = NilRef]
              /\ pc' = [pc EXCEPT ![t] = "loop"]
              /\ UNCHANGED <<panic, regMutex>>
    /\ UNCHANGED <<now, srvVars, heap, twins, call, exists, ret, lastOK, made>>
    /\ UNCHANGED <<features, tpc, tcall, texists, tret>>
    /\ UNCHANGED <<subscribers, chans, psMutex, pub, published, sentTo, lastRecv,
                   subTopic, removed>>
    /\ UNCHANGED <<maps, arrays, feature, fpc, fcall, hold>>

\* ------------------------------------------------------------ the bus

Message(topic, payload) == [Topic |-> topic, Payload |-> payload]

NoMessage == Message("", 0)
NoChan == [made |-> FALSE, buf |-> <<>>, closed |-> FALSE]
NoPub == [pc |-> "idle", msg |-> NoMessage, subs |-> <<>>, i |-> 0]
EmptySubs == [x \in {} |-> <<>>]

\* ps.subscribers[topic], nil (the empty slice) for a missing key
SubsOf(topic) == IF topic \in DOMAIN subscribers THEN subscribers[topic] ELSE <<>>

\* The index of the first element of subs equal to ch, 0 when there is none
\* (for i, sub := range subs { if sub == ch { ...; break } }).
IndexOf(subs, ch) ==
    IF \E i \in 1..Len(subs) : subs[i] = ch
      THEN CHOOSE i \in 1..Len(subs) : subs[i] = ch /\ \A j \in 1..(i - 1) : subs[j] # ch
      ELSE 0

\* append(subs[:i], subs[i+1:]...) (i counted from 1)
RemoveAt(subs, i) == SubSeq(subs, 1, i - 1) \o SubSeq(subs, i + 1, Len(subs))

\* (mutant) the bus replays to a new subscriber what the topic's first subscriber
\* still holds
Subscribe_Replay(topic, free) ==
    /\ CanLock(psMutex)
    /\ \E ch \in free :
         /\ ~chans[ch].made
         /\ \A c \in free : c < ch => chans[c].made
         /\ chans' = [chans EXCEPT ![ch] =
                        [made |-> TRUE,
                         buf |-> IF SubsOf(topic) = <<>> THEN <<>> ELSE chans[SubsOf(topic)[1]].buf,
                         closed |-> FALSE]]
         /\ subscribers' = MapPut(subscribers, topic, Append(SubsOf(topic), ch))
         /\ subTopic' = [subTopic EXCEPT ![ch] = topic]
    /\ UNCHANGED <<psMutex, pub, panic, published, sentTo, lastRecv, removed, regVars, srvVars, twinVars, fsVars>>

\* Subscribe(topic): under Lock, make a channel (the next of those in `free` not yet
\* made) and append it to the topic's slice.
Subscribe(topic, free) ==
    /\ CanLock(psMutex)
    /\ \E ch \in free :
         /\ ~chans[ch].made
         /\ \A c \in free : c < ch => chans[c].made
         /\ chans' = [chans EXCEPT ![ch] = [made |-> TRUE, buf |-> <<>>, closed |-> FALSE]]
         /\ subscribers' = MapPut(subscribers, topic, Append(SubsOf(topic), ch))
         /\ subTopic' = [subTopic EXCEPT ![ch] = topic]
    /\ UNCHANGED <<psMutex, pub, panic, published, sentTo, lastRecv, removed, regVars, srvVars, twinVars, fsVars>>

\* The history of Unsubscribe(topic, ch): the call is the one that ends ch's
\* subscription when topic is the topic ch was subscribed under.
Unsubscribed(topic, ch) ==
    removed' = IF topic = subTopic[ch] THEN removed \cup {ch} ELSE removed

\* (mutant) the topic is kept when its last channel is removed
Unsubscribe_KeepTopic(topic, ch) ==
    /\ CanLock(psMutex)
    /\ IF topic \notin DOMAIN subscribers
         THEN UNCHANGED subscribers
         ELSE LET subs == subscribers[topic]
                  i == IndexOf(subs, ch)
                  left == IF i = 0 THEN subs ELSE RemoveAt(subs, i)
              IN  subscribers' = MapPut(subscribers, topic, left)
    /\ Unsubscribed(topic, ch)
    /\ UNCHANGED <<chans, psMutex, pub, panic, published, sentTo, lastRecv, subTopic, regVars, srvVars, twinVars, fsVars>>

\* (mutant) no ps.mutex.Lock(): the slice is changed while a Publish iterates its copy
Unsubscribe_NoLock(topic, ch) ==
    /\ IF topic \notin DOMAIN subscribers
         THEN UNCHANGED subscribers
         ELSE LET subs == subscribers[topic]
                  i == IndexOf(subs, ch)
                  left == IF i = 0 THEN subs ELSE RemoveAt(subs, i)
              IN  subscribers' = IF Len(left) = 0
                                   THEN MapDelete(subscribers, topic)
                                   ELSE MapPut(subscribers, topic, left)
    /\ Unsubscribed(topic, ch)
    /\ UNCHANGED <<chans, psMutex, pub, panic, published, sentTo, lastRecv, subTopic, regVars, srvVars, twinVars, fsVars>>

\* (mutant) ps.subscribers[topic] = subs[:i]: the channels after ch are removed too
Unsubscribe_Truncate(topic, ch) ==
    /\ CanLock(psMutex)
    /\ IF topic \notin DOMAIN subscribers
         THEN UNCHANGED subscribers
         ELSE LET subs == subscribers[topic]
                  i == IndexOf(subs, ch)
                  left == IF i = 0 THEN subs ELSE SubSeq(subs, 1, i - 1)
              IN  subscribers' = IF Len(left) = 0
                                   THEN MapDelete(subscribers, topic)
                                   ELSE MapPut(subscribers, topic, left)
    /\ Unsubscribed(topic, ch)
    /\ UNCHANGED <<chans, psMutex, pub, panic, published, sentTo, lastRecv, subTopic, regVars, srvVars, twinVars, fsVars>>

\* Unsubscribe(topic, ch): under Lock, remove the first occurrence of ch from the
\* topic's slice, then delete the topic when its slice is empty.
Unsubscribe(topic, ch) ==
    /\ CanLock(psMutex)
    /\ IF topic \notin DOMAIN subscribers
         THEN UNCHANGED subscribers
         ELSE LET subs == subscribers[topic]
                  i == IndexOf(subs, ch)
                  left == IF i = 0 THEN subs ELSE RemoveAt(subs, i)
              IN  subscribers' = IF Len(left) = 0
                                   THEN MapDelete(subscribers, topic)
                                   ELSE MapPut(subscribers, topic, left)
    /\ Unsubscribed(topic, ch)
    /\ UNCHANGED <<chans, psMutex, pub, panic, published, sentTo, lastRecv, subTopic, regVars, srvVars, twinVars, fsVars>>

\* (mutant) the subscription strings are patterns: "twin.+" matches every "twin."
\* topic, and the channels of every matching subscription are sent to
Matches_Wildcard(pattern, topic) ==
    \/ pattern = topic
    \/ pattern = "twin.+" /\ topic \in {"twin.created", "twin.updated", "twin.deleted"}

Concat(seqs) ==
    LET F[n \in 0..Len(seqs)] == IF n = 0 THEN <<>> ELSE F[n - 1] \o seqs[n]
    IN  F[Len(seqs)]

PublishLock_Wildcard(t, topic, limit) ==
    /\ pub[t].pc = "idle"
    /\ published < limit
    /\ CanRLock(psMutex)
    /\ psMutex' = [psMutex EXCEPT !.r = @ \cup {t}]
    /\ published' = published + 1
    /\ LET payload == published + 1
           all == <<"twin.+", "twin.created", "twin.updated", "twin.deleted", "T", "U">>
           subs == Concat([n \in 1..Len(all) |->
                             IF Matches_Wildcard(all[n], topic) THEN SubsOf(all[n]) ELSE <<>>])
       IN  /\ pub' = [pub EXCEPT ![t] =
                        IF subs = <<>>
                          THEN [pc |-> "return", msg |-> Message(topic, payload),
                                subs |-> <<>>, i |-> 0]
                          ELSE [pc |-> "loop", msg |-> Message(topic, payload),
                                subs |-> subs, i |-> 1]]
           /\ sentTo' = [c \in Chans |->
                           IF \E j \in 1..Len(SubsOf(topic)) : SubsOf(topic)[j] = c
                             THEN Append(sentTo[c], payload)
                             ELSE sentTo[c]]
    /\ UNCHANGED <<subscribers, chans, panic, lastRecv, subTopic, removed, regVars, srvVars, twinVars, fsVars>>

\* Publish(topic, payload) up to the loop: RLock, the lookup of the topic's slice, and
\* the message.
PublishEnter(t, topic, limit) ==
    /\ pub[t].pc = "idle"
    /\ published < limit
    /\ CanRLock(psMutex)
    /\ psMutex' = [psMutex EXCEPT !.r = @ \cup {t}]
    /\ published' = published + 1
    /\ LET payload == published + 1
       IN  /\ pub' = [pub EXCEPT ![t] =
                        IF topic \notin DOMAIN subscribers
                          THEN [pc |-> "return", msg |-> Message(topic, payload),
                                subs |-> <<>>, i |-> 0]
                          ELSE [pc |-> "loop", msg |-> Message(topic, payload),
                                subs |-> subscribers[topic], i |-> 1]]
           /\ sentTo' = [c \in Chans |->
                           IF \E j \in 1..Len(SubsOf(topic)) : SubsOf(topic)[j] = c
                             THEN Append(sentTo[c], payload)
                             ELSE sentTo[c]]
    /\ UNCHANGED <<subscribers, chans, panic, lastRecv, subTopic, removed>>

PublishLock(t, topic, limit) ==
    /\ PublishEnter(t, topic, limit)
    /\ UNCHANGED <<regVars, srvVars, twinVars, fsVars>>

\* (mutant) a plain send, ch <- msg: it waits while the buffer is full
Send_Blocking(ch, msg) ==
    IF chans[ch].closed
      THEN /\ panic' = "send on closed channel"
           /\ UNCHANGED chans
      ELSE /\ Len(chans[ch].buf) < Capacity
           /\ chans' = [chans EXCEPT ![ch].buf = Append(@, msg)]
           /\ UNCHANGED panic

\* (mutant) a full buffer makes room by dropping its oldest message
Send_DropOldest(ch, msg) ==
    IF chans[ch].closed
      THEN /\ panic' = "send on closed channel"
           /\ UNCHANGED chans
      ELSE /\ chans' = IF Len(chans[ch].buf) < Capacity
                         THEN [chans EXCEPT ![ch].buf = Append(@, msg)]
                         ELSE [chans EXCEPT ![ch].buf = Append(Tail(@), msg)]
           /\ UNCHANGED panic

\* (mutant) the buffer holds one message less
Send_OffByOne(ch, msg) ==
    IF chans[ch].closed
      THEN /\ panic' = "send on closed channel"
           /\ UNCHANGED chans
      ELSE /\ chans' = IF Len(chans[ch].buf) < Capacity - 1
                         THEN [chans EXCEPT ![ch].buf = Append(@, msg)]
                         ELSE chans
           /\ UNCHANGED panic

\* (mutant) the message is put at the head of the buffer
Send_Front(ch, msg) ==
    IF chans[ch].closed
      THEN /\ panic' = "send on closed channel"
           /\ UNCHANGED chans
      ELSE /\ chans' = IF Len(chans[ch].buf) < Capacity
                         THEN [chans EXCEPT ![ch].buf = <<msg>> \o @]
                         ELSE chans
           /\ UNCHANGED panic

\* select { case ch <- msg: default: } on a channel with a buffer of Capacity: the
\* send panics on a closed channel, enqueues when the buffer has room, and else the
\* default case is taken.
Send(ch, msg) ==
    IF chans[ch].closed
      THEN /\ panic' = "send on closed channel"
           /\ UNCHANGED chans
      ELSE /\ chans' = IF Len(chans[ch].buf) < Capacity
                         THEN [chans EXCEPT ![ch].buf = Append(@, msg)]
                         ELSE chans
           /\ UNCHANGED panic

\* (mutant) the loop ends at the first full channel: break instead of skipping it
PublishSend_BreakOnFull(t) ==
    /\ pub[t].pc = "loop"
    /\ panic = "none"
    /\ Send(pub[t].subs[pub[t].i], pub[t].msg)
    /\ pub' = [pub EXCEPT ![t].i = @ + 1,
                          ![t].pc = IF \/ pub[t].i = Len(pub[t].subs)
                                       \/ Len(chans[pub[t].subs[pub[t].i]].buf) = Capacity
                                      THEN "return" ELSE "loop"]
    /\ UNCHANGED <<subscribers, psMutex, published, sentTo, lastRecv, subTopic, removed, regVars, srvVars, twinVars, fsVars>>

\* (mutant) the loop stops one short: for i := 0; i < len(subs)-1; i++ (a single
\* subscriber is still sent to)
PublishSend_SkipLast(t) ==
    /\ pub[t].pc = "loop"
    /\ panic = "none"
    /\ Send(pub[t].subs[pub[t].i], pub[t].msg)
    /\ pub' = [pub EXCEPT ![t].i = @ + 1,
                          ![t].pc = IF pub[t].i >= Len(pub[t].subs) - 1 THEN "return" ELSE "loop"]
    /\ UNCHANGED <<subscribers, psMutex, published, sentTo, lastRecv, subTopic, removed, regVars, srvVars, twinVars, fsVars>>

\* One iteration of `for _, ch := range subs`.
PublishSend(t) ==
    /\ pub[t].pc = "loop"
    /\ panic = "none"
    /\ Send(pub[t].subs[pub[t].i], pub[t].msg)
    /\ pub' = [pub EXCEPT ![t].i = @ + 1,
                          ![t].pc = IF pub[t].i = Len(pub[t].subs) THEN "return" ELSE "loop"]
    /\ UNCHANGED <<subscribers, psMutex, published, sentTo, lastRecv, subTopic, removed, regVars, srvVars, twinVars, fsVars>>

\* defer ps.mutex.RUnlock(), and the return
PublishReturn(t) ==
    /\ pub[t].pc = "return"
    /\ psMutex' = [psMutex EXCEPT !.r = @ \ {t}]
    /\ pub' = [pub EXCEPT ![t] = NoPub]
    /\ UNCHANGED <<subscribers, chans, panic, published, sentTo, lastRecv, subTopic, removed, regVars, srvVars, twinVars, fsVars>>

\* Every channel in some topic's slice.
Subscribed == {c \in Chans : \E topic \in DOMAIN subscribers :
                                \E j \in 1..Len(subscribers[topic]) : subscribers[topic][j] = c}

\* (mutant) the messages waiting in a channel are dropped when it is closed
Close_Discard ==
    /\ CanLock(psMutex)
    /\ panic = "none"
    /\ IF \E c \in Subscribed : chans[c].closed
         THEN /\ panic' = "close of closed channel"
              /\ UNCHANGED <<subscribers, chans>>
         ELSE /\ chans' = [c \in Chans |->
                             IF c \in Subscribed
                               THEN [chans[c] EXCEPT !.closed = TRUE, !.buf = <<>>]
                               ELSE chans[c]]
              /\ subscribers' = EmptySubs
              /\ UNCHANGED panic
    /\ UNCHANGED <<psMutex, pub, published, sentTo, lastRecv, subTopic, removed, regVars, srvVars, twinVars, fsVars>>

\* (mutant) the topics are deleted and their channels left open
Close_ClearOnly ==
    /\ CanLock(psMutex)
    /\ panic = "none"
    /\ subscribers' = EmptySubs
    /\ UNCHANGED <<chans, psMutex, pub, panic, published, sentTo, lastRecv, subTopic, removed, regVars, srvVars, twinVars, fsVars>>

\* (mutant) the channels are closed and their topics kept: no delete(ps.subscribers, topic)
Close_KeepTopics ==
    /\ CanLock(psMutex)
    /\ panic = "none"
    /\ IF \E c \in Subscribed : chans[c].closed
         THEN /\ panic' = "close of closed channel"
              /\ UNCHANGED chans
         ELSE /\ chans' = [c \in Chans |->
                             IF c \in Subscribed THEN [chans[c] EXCEPT !.closed = TRUE]
                                                 ELSE chans[c]]
              /\ UNCHANGED panic
    /\ UNCHANGED <<subscribers, psMutex, pub, published, sentTo, lastRecv, subTopic, removed, regVars, srvVars, twinVars, fsVars>>

\* Close(): under Lock, close(ch) for every channel of every topic, and delete every
\* topic. close of a closed channel panics.
Close ==
    /\ CanLock(psMutex)
    /\ panic = "none"
    /\ IF \E c \in Subscribed : chans[c].closed
         THEN /\ panic' = "close of closed channel"
              /\ UNCHANGED <<subscribers, chans>>
         ELSE /\ chans' = [c \in Chans |->
                             IF c \in Subscribed THEN [chans[c] EXCEPT !.closed = TRUE]
                                                 ELSE chans[c]]
              /\ subscribers' = EmptySubs
              /\ UNCHANGED panic
    /\ UNCHANGED <<psMutex, pub, published, sentTo, lastRecv, subTopic, removed, regVars, srvVars, twinVars, fsVars>>

\* A consumer dequeues: msg := <-ch.
Recv(ch) ==
    /\ chans[ch].made
    /\ chans[ch].buf # <<>>
    /\ chans' = [chans EXCEPT ![ch].buf = Tail(@)]
    /\ lastRecv' = [lastRecv EXCEPT ![ch] = Head(chans[ch].buf)]
    /\ UNCHANGED <<subscribers, psMutex, pub, panic, published, sentTo, subTopic, removed, regVars, srvVars, twinVars, fsVars>>

\* A receive from ch yields the zero Message and ok = false (and `for msg := range ch`
\* ends): ch is closed and holds no message.
EndOfStream(ch) == chans[ch].closed /\ chans[ch].buf = <<>>

\* ------------------------------------------------------ request handlers

\* The handlers of pkg/api, each run by the goroutine net/http starts for a request.
\* A handler is split where it calls the Registry, the twin, its FeatureState or the
\* bus: one step takes what the call before returned and either answers or enters
\* the next call, whose own steps are those of the sections above. The frames of
\* these calls are the goroutine's pc/call, tpc/tcall, fpc/fcall and pub.

\* The handlers that change a twin or the Registry.
WriteOps == {"CreateTwin", "UpdateTwin", "DeleteTwin", "UpdateFeature", "DeleteFeature",
             "UpdateProperties", "UpdateProperty", "DeleteProperty"}

\* The topic a handler gives to s.PubSub.Publish.
EventTopic(op) ==
    CASE op = "CreateTwin" -> "twin.created"
      [] op = "UpdateTwin" -> "twin.updated"
      [] op = "DeleteTwin" -> "twin.deleted"
      [] op = "UpdateFeature" -> "feature.updated"
      [] op = "DeleteFeature" -> "feature.deleted"
      [] op = "UpdateProperties" -> "properties.updated"
      [] op = "UpdateProperty" -> "property.updated"
      [] op = "DeleteProperty" -> "property.deleted"
      [] OTHER -> ""

\* A request: the handler its route selects, the URL parameters twinID (for
\* CreateTwin the id of the body), featureID and propKey, and of the body one
\* attribute or property value ("" when the body has none), the type, and whether
\* its JSON is malformed.
Request(op, id, fid, key, value, type, bad) ==
    [op |-> op, id |-> id, fid |-> fid, key |-> key, value |-> value, type |-> type,
     bad |-> bad, stage |-> "entered", status |-> "none", dt |-> NilRef, n |-> 0,
     before |-> EmptyMap]

\* The number of requests the server has accepted.
Served == CHOOSE n \in {req[t].n : t \in Threads} : \A u \in Threads : req[u].n <= n

\* The properties of the feature a request names, as Registry.Get and GetFeature
\* report them; none when the twin or the feature is not there.
Before(r) ==
    IF r.id \in DOMAIN twins /\ r.fid \in DOMAIN features[twins[r.id]]
      THEN maps[features[twins[r.id]][r.fid].Properties].kv
      ELSE EmptyMap

\* net/http accepts a request and starts a goroutine that runs its handler. History:
\* n is the place of the request among those accepted, and before the properties
\* of its feature at that time.
Serve(t, r) ==
    /\ req[t].stage \in {"none", "done"}
    /\ req' = [req EXCEPT ![t] = [r EXCEPT !.n = Served + 1, !.before = Before(r)]]
    /\ UNCHANGED <<wg, shut, events, regVars, busVars, twinVars, fsVars>>

\* s.wg.Add(1), the first statement of every handler
WgAdd(t) ==
    /\ req[t].stage = "entered"
    /\ wg' = wg + 1
    /\ req' = [req EXCEPT ![t].stage = "begin"]
    /\ UNCHANGED <<shut, events, regVars, busVars, twinVars, fsVars>>

\* respondError(w, status, ...) / respondJSON(w, status, ...) and the return
Answer(t, status) ==
    /\ req' = [req EXCEPT ![t].stage = "respond", ![t].status = status]
    /\ UNCHANGED <<wg, shut, events, regVars, busVars, twinVars, fsVars>>

\* The handler enters a Registry call.
ThenRegistry(t, r, c) ==
    /\ req' = [req EXCEPT ![t] = r]
    /\ pc' = [pc EXCEPT ![t] = "lock"]
    /\ call' = [call EXCEPT ![t] = c]
    /\ exists' = [exists EXCEPT ![t] = FALSE]
    /\ ret' = [ret EXCEPT ![t] = NoRet]
    /\ UNCHANGED <<now, heap, twins, regMutex, lastOK, made>>
    /\ UNCHANGED <<wg, shut, events, busVars, twinVars, fsVars>>

\* The handler enters a call of its twin.
ThenTwin(t, r, c) ==
    /\ req' = [req EXCEPT ![t] = r]
    /\ tpc' = [tpc EXCEPT ![t] = IF c.op \in {"GetFeature", "GetAllFeatures"}
                                   THEN "rlock" ELSE "lock"]
    /\ tcall' = [tcall EXCEPT ![t] = c]
    /\ texists' = [texists EXCEPT ![t] = FALSE]
    /\ tret' = [tret EXCEPT ![t] = "none"]
    /\ UNCHANGED <<features, twinMutex>>
    /\ UNCHANGED <<wg, shut, events, regVars, busVars, fsVars>>

\* The handler enters a method of its local FeatureState and takes its mutex.
ThenFeatureState(t, r, c) ==
    /\ req' = [req EXCEPT ![t] = r]
    /\ IF IsFsWriter(c.op)
         THEN /\ CanLock(feature[t].mutex)
              /\ feature' = [feature EXCEPT ![t].mutex.w = t]
         ELSE /\ CanRLock(feature[t].mutex)
              /\ feature' = [feature EXCEPT ![t].mutex.r = @ \cup {t}]
    /\ fpc' = [fpc EXCEPT ![t] = "act"]
    /\ fcall' = [fcall EXCEPT ![t] = c]
    /\ UNCHANGED <<maps, arrays, hold, find>>
    /\ UNCHANGED <<wg, shut, events, regVars, busVars, twinVars>>

\* The request of goroutine t, at another position of its handler.
At(t, stage) == [req[t] EXCEPT !.stage = stage]

\* The handler goes on to its next statement without a call.
Goto(t, r) ==
    /\ req' = [req EXCEPT ![t] = r]
    /\ UNCHANGED <<wg, shut, events, busVars, twinVars, fsVars>>
    /\ UNCHANGED <<now, twins, regMutex, pc, call, exists, ret, lastOK>>

\* From the decoding of the body to the first call. CreateTwin answers a body that
\* is malformed or lacks the id or the type, and else constructs its twin:
\* `dt := twin.NewDigitalTwin(req.ID, req.Type)`. DeleteTwin calls Registry.Delete,
\* ListTwins Registry.List, and every other handler Registry.Get.
Begin(t) ==
    /\ req[t].stage = "begin"
    /\ CASE req[t].op = "CreateTwin" ->
              IF req[t].bad \/ req[t].id = "" \/ req[t].type = ""
                THEN Answer(t, "bad request")
                ELSE \E r \in Refs :
                       /\ heap[r] = NoTwin
                       /\ \A q \in Refs : q < r => heap[q] # NoTwin
                       /\ heap' = [heap EXCEPT ![r] =
                                     NewDigitalTwin(req[t].id, req[t].type, now)]
                       /\ made' = [made EXCEPT ![r] = [id |-> req[t].id, type |-> req[t].type]]
                       /\ Goto(t, [req[t] EXCEPT !.stage = "fields", !.dt = r])
         [] req[t].op = "DeleteTwin" ->
              ThenRegistry(t, At(t, "store"),
                 [op |-> "Delete", id |-> req[t].id, dt |-> NilRef, keep |-> TRUE])
         [] req[t].op = "ListTwins" ->
              ThenRegistry(t, At(t, "list"),
                 [op |-> "List", id |-> "", dt |-> NilRef, keep |-> TRUE])
         [] OTHER ->
              ThenRegistry(t, At(t, "get"),
                 [op |-> "Get", id |-> req[t].id, dt |-> NilRef, keep |-> TRUE])

\* s.Registry.Create(dt) in CreateTwin, s.Registry.Update(dt) in every other handler
\* that writes
ThenStore(t) ==
    ThenRegistry(t, At(t, "store"),
                 [op |-> IF req[t].op = "CreateTwin" THEN "Create" ELSE "Update",
                  id |-> "", dt |-> req[t].dt, keep |-> TRUE])

\* dt.GetFeature(featureID)
ThenGetFeature(t, r) ==
    ThenTwin(t, [r EXCEPT !.stage = "feature"],
             [op |-> "GetFeature", dt |-> r.dt, id |-> r.fid])

\* Registry.Get has returned: "not found" when it returned an error, else `dt` is the
\* stored twin. GetTwin answers with it; UpdateTwin decodes the body and sets
\* `dt.Type = req.Type`, without the twin's mutex; DeleteFeature calls
\* dt.RemoveFeature, GetFeatures dt.GetAllFeatures, and the others dt.GetFeature,
\* UpdateFeature after it decoded its body.
Got(t) ==
    /\ req[t].stage = "get" /\ pc[t] = "done"
    /\ LET r == [req[t] EXCEPT !.dt = ret[t].dt]
       IN CASE ret[t].err # NilErr -> Answer(t, "not found")
            [] ret[t].err = NilErr /\ req[t].op = "GetTwin" -> Answer(t, "ok")
            [] ret[t].err = NilErr /\ req[t].op = "UpdateTwin" ->
                 IF req[t].bad
                   THEN Answer(t, "bad request")
                   ELSE /\ heap' = IF req[t].type = "" THEN heap
                                     ELSE [heap EXCEPT ![r.dt].Type = req[t].type]
                        /\ UNCHANGED made
                        /\ Goto(t, [r EXCEPT !.stage = "fields"])
            [] ret[t].err = NilErr /\ req[t].op = "UpdateFeature" ->
                 IF req[t].bad THEN Answer(t, "bad request") ELSE ThenGetFeature(t, r)
            [] ret[t].err = NilErr /\ req[t].op = "DeleteFeature" ->
                 ThenTwin(t, [r EXCEPT !.stage = "write"],
                          [op |-> "RemoveFeature", dt |-> r.dt, id |-> r.fid,
                           feature |-> NoFeatureState, keep |-> TRUE])
            [] ret[t].err = NilErr /\ req[t].op = "GetFeatures" ->
                 ThenTwin(t, [r EXCEPT !.stage = "feature"],
                          [op |-> "GetAllFeatures", dt |-> r.dt])
            [] OTHER -> ThenGetFeature(t, r)

\* The optional fields of the body of CreateTwin and UpdateTwin:
\* `for k, v := range req.Attributes { dt.SetAttribute(k, v) }`, then the Registry call.
Fields(t) ==
    /\ req[t].stage = "fields"
    /\ IF req[t].value # ""
         THEN ThenTwin(t, At(t, "attr"),
                       [op |-> "SetAttribute", dt |-> req[t].dt, key |-> "location",
                        value |-> req[t].value, keep |-> TRUE])
         ELSE ThenStore(t)

\* dt.SetAttribute has returned.
Attr(t) ==
    /\ req[t].stage = "attr" /\ tpc[t] = "done"
    /\ ThenStore(t)

\* feature.SetProperty(k, v) for the property of the body
ThenSetProperty(t) ==
    ThenFeatureState(t, At(t, "set"),
                     [op |-> "SetProperty", obj |-> t, key |-> req[t].key,
                      value |-> req[t].value])

\* dt.UpdateFeature(featureID, feature), or in UpdateFeature, when GetFeature did not
\* find the feature, dt.AddFeature(featureID, feature)
ThenWrite(t) ==
    ThenTwin(t, At(t, "write"),
             [op |-> IF req[t].op = "UpdateFeature" /\ ~hold[t].exists
                       THEN "AddFeature" ELSE "UpdateFeature",
              dt |-> req[t].dt, id |-> req[t].fid, feature |-> feature[t], keep |-> TRUE])

\* `for k, v := range req.Properties { feature.SetProperty(k, v) }` of UpdateFeature
\* and UpdateProperties, then the call that stores the feature.
Properties(t) == IF req[t].key # "" THEN ThenSetProperty(t) ELSE ThenWrite(t)

\* (mutant) the PUT of a feature replaces the feature: it starts from a new
\* FeatureState also when the twin has the feature
NewFeature_Always(t) ==
    /\ req[t].stage = "feature" /\ req[t].op = "UpdateFeature"
    /\ hold[t].src = "get"
    /\ NewFeatureState(t)

\* `if !exists { feature = *twin.NewFeatureState() }` of UpdateFeature
NewFeature(t) ==
    /\ req[t].stage = "feature" /\ req[t].op = "UpdateFeature"
    /\ hold[t].src = "get" /\ ~hold[t].exists
    /\ NewFeatureState(t)

\* dt.GetFeature / dt.GetAllFeatures has returned. GetFeatures answers. UpdateFeature
\* goes on with the feature it got or, `if !exists`, with a new one (NewFeatureState
\* is the next step); every other handler answers "not found" when the feature is
\* not there. GetFeature answers; UpdateProperties and UpdateProperty decode the
\* body and set its property; GetProperties calls feature.GetAllProperties,
\* GetProperty and DeleteProperty feature.GetProperty(propKey).
GotFeature(t) ==
    /\ req[t].stage = "feature" /\ tpc[t] = "idle"
    /\ CASE req[t].op = "GetFeatures" -> Answer(t, "ok")
         [] req[t].op = "UpdateFeature" ->
              (hold[t].exists \/ hold[t].src = "new") /\ Properties(t)
         [] req[t].op # "GetFeatures" /\ req[t].op # "UpdateFeature" /\ ~hold[t].exists ->
              Answer(t, "not found")
         [] req[t].op = "GetFeature" /\ hold[t].exists -> Answer(t, "ok")
         [] req[t].op \in {"UpdateProperties", "UpdateProperty"} /\ hold[t].exists ->
              IF req[t].bad THEN Answer(t, "bad request") ELSE Properties(t)
         [] req[t].op = "GetProperties" /\ hold[t].exists ->
              ThenFeatureState(t, At(t, "prop"), [op |-> "GetAllProperties", obj |-> t])
         [] OTHER ->
              ThenFeatureState(t, At(t, "prop"),
                               [op |-> "GetProperty", obj |-> t, key |-> req[t].key])

\* feature.GetAllProperties / feature.GetProperty has returned: GetProperties answers;
\* GetProperty and DeleteProperty answer "not found" when the key is not there, and
\* else GetProperty answers and DeleteProperty calls feature.RemoveProperty(propKey).
GotProperty(t) ==
    /\ req[t].stage = "prop" /\ fpc[t] = "idle"
    /\ CASE req[t].op = "GetProperties" -> Answer(t, "ok")
         [] req[t].op # "GetProperties" /\ ~hold[t].exists -> Answer(t, "not found")
         [] req[t].op = "GetProperty" /\ hold[t].exists -> Answer(t, "ok")
         [] OTHER ->
              ThenFeatureState(t, At(t, "set"),
                               [op |-> "RemoveProperty", obj |-> t, key |-> req[t].key])

\* feature.SetProperty / feature.RemoveProperty has returned: the handler gives its
\* feature to the twin.
Set(t) ==
    /\ req[t].stage = "set" /\ fpc[t] = "idle"
    /\ ThenWrite(t)

\* dt.AddFeature / dt.UpdateFeature / dt.RemoveFeature has returned: an error is
\* answered "internal error", but for DeleteFeature's ErrFeatureNotFound; with no
\* error the handler calls s.Registry.Update(dt).
Written(t) ==
    /\ req[t].stage = "write" /\ tpc[t] = "done"
    /\ CASE tret[t] = NilErr -> ThenStore(t)
         [] tret[t] = ErrFeatureNotFound /\ req[t].op = "DeleteFeature" ->
              Answer(t, "not found")
         [] OTHER -> Answer(t, "internal error")

\* The payload of a handler's event names the twin: dt.ID in CreateTwin and
\* UpdateTwin, twinID in the others.
EventID(t) == IF req[t].op \in {"CreateTwin", "UpdateTwin"} THEN heap[req[t].dt].ID
                                                            ELSE req[t].id

\* (mutant) the event is published whatever the Registry call returned
Stored_PublishFirst(t) ==
    /\ req[t].stage = "store" /\ pc[t] = "done"
    /\ PublishEnter(t, EventTopic(req[t].op), published + 1)
    /\ events' = Append(events, [topic |-> EventTopic(req[t].op),
                                 id |-> EventID(t), n |-> req[t].n])
    /\ req' = [req EXCEPT ![t].stage = "publish"]
    /\ UNCHANGED <<wg, shut, regVars, twinVars, fsVars>>

\* Registry.Create / Update / Delete has returned. CreateTwin answers
\* ErrTwinAlreadyExists with "conflict" and DeleteTwin ErrTwinNotFound with
\* "not found"; every other error is answered "internal error". With no error the
\* handler calls s.PubSub.Publish(topic, payload).
Stored(t) ==
    /\ req[t].stage = "store" /\ pc[t] = "done"
    /\ CASE ret[t].err = NilErr ->
              /\ PublishEnter(t, EventTopic(req[t].op), published + 1)
              /\ events' = Append(events, [topic |-> EventTopic(req[t].op),
                                           id |-> EventID(t), n |-> req[t].n])
              /\ req' = [req EXCEPT ![t].stage = "publish"]
              /\ UNCHANGED <<wg, shut, regVars, twinVars, fsVars>>
         [] ret[t].err = ErrTwinAlreadyExists /\ req[t].op = "CreateTwin" ->
              Answer(t, "conflict")
         [] ret[t].err = ErrTwinNotFound /\ req[t].op = "DeleteTwin" ->
              Answer(t, "not found")
         [] OTHER -> Answer(t, "internal error")

\* Registry.List has returned.
Listed(t) ==
    /\ req[t].stage = "list" /\ pc[t] = "done"
    /\ Answer(t, "ok")

\* Publish has returned: respondJSON(w, http.StatusCreated, dt) in CreateTwin,
\* respondJSON(w, http.StatusOK, ...) in the others.
Published(t) ==
    /\ req[t].stage = "publish" /\ pub[t].pc = "idle"
    /\ Answer(t, IF req[t].op = "CreateTwin" THEN "created" ELSE "ok")

\* The handler returns: the deferred s.wg.Done() runs and the goroutine, with its
\* local variables, is gone.
WgDone(t) ==
    /\ req[t].stage = "respond"
    /\ wg' = wg - 1
    /\ req' = [req EXCEPT ![t].stage = "done"]
    /\ pc' = [pc EXCEPT ![t] = "idle"]
    /\ call' = [call EXCEPT ![t] = NoCall]
    /\ exists' = [exists EXCEPT ![t] = FALSE]
    /\ ret' = [ret EXCEPT ![t] = NoRet]
    /\ tpc' = [tpc EXCEPT ![t] = "idle"]
    /\ tcall' = [tcall EXCEPT ![t] = NoTwinCall]
    /\ texists' = [texists EXCEPT ![t] = FALSE]
    /\ tret' = [tret EXCEPT ![t] = "none"]
    /\ feature' = [feature EXCEPT ![t] = NoFeatureState]
    /\ hold' = [hold EXCEPT ![t] = NoHold]
    /\ UNCHANGED <<now, heap, twins, regMutex, lastOK, made, features, twinMutex>>
    /\ UNCHANGED <<maps, arrays, fpc, fcall, find, shut, events, busVars>>

\* ------------------------------------------------------------- shutdown

\* main calls server.Shutdown(ctx): Shutdown makes waitCh and starts the goroutine
\* that calls s.wg.Wait().
ShutdownCall ==
    /\ shut = "none"
    /\ shut' = "wait"
    /\ UNCHANGED <<req, wg, events, regVars, busVars, twinVars, fsVars>>

\* s.wg.Wait() returns, the counter being zero, and the goroutine closes waitCh.
WaitReturns ==
    /\ shut = "wait" /\ wg = 0
    /\ shut' = "closed"
    /\ UNCHANGED <<req, wg, events, regVars, busVars, twinVars, fsVars>>

\* `case <-waitCh: return nil`
ShutdownReturns ==
    /\ shut = "closed"
    /\ shut' = "nil"
    /\ UNCHANGED <<req, wg, events, regVars, busVars, twinVars, fsVars>>

\* `case <-ctx.Done(): return ctx.Err()`: the deadline of the context has passed.
\* When waitCh is closed as well, select takes either case.
ShutdownDeadline ==
    /\ shut \in {"wait", "closed"}
    /\ shut' = "deadline"
    /\ UNCHANGED <<req, wg, events, regVars, busVars, twinVars, fsVars>>

\* ------------------------------------------------------- specifications

\* NewRegistry(): an empty map, an unlocked mutex; no twin constructed yet.
Init ==
    /\ now = 0
    /\ heap = [r \in Refs |-> NoTwin]
    /\ twins = EmptyMap
    /\ regMutex = [w |-> NoThread, r |-> {}]
    /\ pc = [t \in Threads |-> "idle"]
    /\ call = [t \in Threads |-> NoCall]
    /\ exists = [t \in Threads |-> FALSE]
    /\ ret = [t \in Threads |-> NoRet]
    /\ lastOK = [id \in IDs |-> NoOp]
    /\ made = [r \in Refs |-> NotMade]
    /\ subscribers = EmptySubs
    /\ chans = [c \in Chans |-> NoChan]
    /\ psMutex = [w |-> NoThread, r |-> {}]
    /\ pub = [t \in Threads |-> NoPub]
    /\ panic = "none"
    /\ published = 0
    /\ sentTo = [c \in Chans |-> <<>>]
    /\ lastRecv = [c \in Chans |-> NoMessage]
    /\ subTopic = [c \in Chans |-> ""]
    /\ removed = {}
    /\ features = [r \in Refs |-> EmptyMap]
    /\ twinMutex = [r \in Refs |-> [w |-> NoThread, r |-> {}]]
    /\ tpc = [t \in Threads |-> "idle"]
    /\ tcall = [t \in Threads |-> NoTwinCall]
    /\ texists = [t \in Threads |-> FALSE]
    /\ tret = [t \in Threads |-> "none"]
    /\ maps = [m \in MapRefs |-> IF m \in Refs THEN [used |-> TRUE, kv |-> EmptyMap]
                                               ELSE FreeMap]
    /\ arrays = [a \in ArrRefs |-> FreeArray]
    /\ feature = [t \in Threads |-> NoFeatureState]
    /\ fpc = [t \in Threads |-> "idle"]
    /\ fcall = [t \in Threads |-> NoFsCall]
    /\ hold = [t \in Threads |-> NoHold]
    /\ find = [t \in Threads |-> NoFind]
    /\ req = [t \in Threads |-> NoRequest]
    /\ wg = 0
    /\ shut = "none"
    /\ events = <<>>

\* Two goroutines issue arbitrary Registry calls on twins constructed at any time.
\* The ids are alike: the first id given to a twin is called "a", the next new one
\* "b", and so on.
IDOrder == <<"a", "b", "c", "d">>

NextNewID(id) ==
    \E n \in 1..Len(IDOrder) :
        /\ IDOrder[n] = id
        /\ \A m \in 1..(n - 1) : \E r \in Allocated : heap[r].ID = IDOrder[m]

NextRegistry ==
    \/ \E id \in IDs : NextNewID(id) /\ New(id, "sensor", MaxTwins)
    \/ \E t \in Callers :
         \/ CallCreate(t)
         \/ CallUpdate(t)
         \/ CallGet(t)
         \/ CallDelete(t)
         \/ CallList(t, FALSE)
         \/ Lock(t)
         \/ Lookup(t)
         \/ Create(t)
         \/ Get(t)
         \/ Update(t)
         \/ Delete(t)
         \/ List(t)
         \/ Unlock(t)

SpecRegistry == Init /\ [][NextRegistry]_vars

\* TestRegistryConcurrency: every worker constructs a twin and calls Create once, all
\* concurrently; when all have returned, the main goroutine calls List.
AllWorkersDone == \A t \in Workers : pc[t] = "done"

NextCreate ==
    \/ \E t \in Workers :
         \/ \E id \in IDs : GoCreate(t, id)
         \/ Lock(t)
         \/ Lookup(t)
         \/ Create(t)
         \/ Unlock(t)
    \/ AllWorkersDone /\ CallList(Main, TRUE)
    \/ Lock(Main)
    \/ List(Main)
    \/ Unlock(Main)

SpecCreate == Init /\ [][NextCreate]_vars

\* One goroutine constructs twins of any id and type at any time of the clock, and
\* creates and reads them.
NextCreateGet ==
    \/ Tick
    \/ \E id \in IDs, ty \in Types : New(id, ty, MaxTwins)
    \/ CallCreate(Main)
    \/ CallGet(Main)
    \/ Lock(Main)
    \/ Lookup(Main)
    \/ Create(Main)
    \/ Get(Main)
    \/ Unlock(Main)

SpecCreateGet == Init /\ [][NextCreateGet]_vars

\* Two goroutines publish, and channels are subscribed, unsubscribed, consumed and
\* closed at any time. The two publishers are alike: of those not in Publish, the one
\* that enters it next is called the first.
FirstIdle(t) == \A u \in Callers : u < t => pub[u].pc # "idle"

NextBus ==
    \/ \E topic \in Topics : Subscribe(topic, PubChans)
    \/ \E topic \in Topics, ch \in PubChans : chans[ch].made /\ Unsubscribe(topic, ch)
    \/ \E t \in Callers :
         \/ FirstIdle(t) /\ \E topic \in Topics : PublishLock(t, topic, MaxPublish)
         \/ PublishSend(t)
         \/ PublishReturn(t)
    \/ Close
    \/ \E ch \in PubChans : Recv(ch)

SpecBus == Init /\ [][NextBus]_vars

\* One goroutine publishes to one topic, up to Overflow messages more than a channel
\* holds, while channels are subscribed, consumed and closed.
NextFill ==
    \/ Subscribe("T", FillChans)
    \/ PublishLock(Main, "T", Capacity + Overflow)
    \/ PublishSend(Main)
    \/ PublishReturn(Main)
    \/ Close
    \/ \E ch \in FillChans : Recv(ch)

SpecFill == Init /\ [][NextFill]_vars

\* The scheduler runs a goroutine that can take a step: a Publish that can go on
\* does go on.
SpecFillFair ==
    SpecFill /\ WF_vars(PublishSend(Main)) /\ WF_vars(PublishReturn(Main))

\* TestPubSubConcurrency: the channels are subscribed to one topic, then every worker
\* publishes one message to it, all concurrently, and nothing is dequeued meanwhile.
\* The workers are alike: the one that enters Publish as the n-th is called worker n.
GoPublish(t) ==
    /\ published = t - 1
    /\ Subscribed # {}
    /\ PublishLock(t, "T", NumThreads)

NextFanOut ==
    \/ published = 0 /\ Subscribe("T", PubChans)
    \/ \E t \in Workers :
         \/ GoPublish(t)
         \/ PublishSend(t)
         \/ PublishReturn(t)

SpecFanOut == Init /\ [][NextFanOut]_vars

\* The program (main): subscriptions are made under the string "twin.+" or under a
\* topic the handlers publish to, the handlers publish concurrently, and consumers
\* dequeue.
TwinTopics == {"twin.+", "twin.created", "twin.updated", "twin.deleted"}

NextMain ==
    \/ \E topic \in TwinTopics : Subscribe(topic, PubChans)
    \/ \E t \in Callers :
         \/ \E topic \in TwinTopics : PublishLock(t, topic, MaxPublish)
         \/ PublishSend(t)
         \/ PublishReturn(t)
    \/ \E ch \in Chans : Recv(ch)

SpecMain == Init /\ [][NextMain]_vars

\* Channels are subscribed, unsubscribed and closed at any time, in any order, while
\* nothing is published.
NextSubs ==
    \/ \E topic \in Topics : Subscribe(topic, 1..MaxSubs)
    \/ \E topic \in Topics, ch \in Chans : chans[ch].made /\ Unsubscribe(topic, ch)
    \/ Close

SpecSubs == Init /\ [][NextSubs]_vars

\* Two goroutines call AddFeature, UpdateFeature and RemoveFeature on one twin at any
\* time of the clock.
NextFeatures ==
    \/ Tick
    \/ New("a", "sensor", 1)
    \/ \E t \in Callers :
         \/ CallAddFeature(t, FALSE)
         \/ CallUpdateFeature(t)
         \/ CallRemoveFeature(t)
         \/ TwinLock(t)
         \/ TwinLookup(t)
         \/ AddFeature(t)
         \/ UpdateFeature(t)
         \/ RemoveFeature(t)
         \/ TwinUnlock(t)

SpecFeatures == Init /\ [][NextFeatures]_vars

\* Every worker calls AddFeature once on the one twin, all concurrently, and reads
\* the error afterwards.
NextAddFeature ==
    \/ Tick
    \/ New("a", "sensor", 1)
    \/ \E t \in Workers :
         \/ CallAddFeature(t, TRUE)
         \/ TwinLock(t)
         \/ TwinLookup(t)
         \/ AddFeature(t)
         \/ TwinUnlock(t)

SpecAddFeature == Init /\ [][NextAddFeature]_vars

\* One goroutine publishes while channels are subscribed, unsubscribed, consumed and
\* closed at any time.
NextClose ==
    \/ \E topic \in Topics : Subscribe(topic, PubChans)
    \/ \E topic \in Topics, ch \in PubChans : chans[ch].made /\ Unsubscribe(topic, ch)
    \/ \E topic \in Topics : PublishLock(Main, topic, MaxPublish)
    \/ PublishSend(Main)
    \/ PublishReturn(Main)
    \/ Close
    \/ \E ch \in PubChans : Recv(ch)

SpecClose == Init /\ [][NextClose]_vars

\* One goroutine works on the features of one twin: it makes a FeatureState or gets
\* one from the twin into its local variable, calls the mutating methods on it, and
\* gives it to AddFeature.
NextProperties ==
    \/ New("a", "sensor", 1)
    \/ NewFeatureState(Handler)
    \/ CallAddLocal(Handler)
    \/ TwinLock(Handler)
    \/ TwinLookup(Handler)
    \/ AddFeature(Handler)
    \/ TwinUnlock(Handler)
    \/ CallGetFeature(Handler)
    \/ TwinRLock(Handler)
    \/ GetFeature(Handler)
    \/ CallSetProperty(Handler, Handler)
    \/ CallRemoveProperty(Handler, Handler)
    \/ CallSetDesiredProperty(Handler, Handler)
    \/ CallRemoveDesiredProperty(Handler, Handler)
    \/ SetProperty(Handler)
    \/ RemoveProperty(Handler)

SpecProperties == Init /\ [][NextProperties]_vars

\* A goroutine makes one call at a time.
Idle(t) == pc[t] = "idle" /\ tpc[t] = "idle" /\ fpc[t] = "idle" /\ pub[t].pc = "idle"

\* One goroutine registers the twins and scans the Registry while another calls the
\* twins, its FeatureState and the bus, each one call after the other as the handlers
\* do.
NextLocks ==
    \/ \E id \in IDs : NextNewID(id) /\ New(id, "sensor", 2)
    \/ Idle(Scanner) /\ CallCreate(Scanner)
    \/ Idle(Scanner) /\ CallFindByAttribute(Scanner, StringValues)
    \/ Idle(Scanner) /\ CallFindByFeature(Scanner)
    \/ Lock(Scanner)
    \/ Lookup(Scanner)
    \/ Create(Scanner)
    \/ FindStart(Scanner)
    \/ FindNext(Scanner)
    \/ FindEnter(Scanner)
    \/ FindRead(Scanner)
    \/ Unlock(Scanner)
    \/ Idle(Handler) /\ CallSetAttribute(Handler, StringValues)
    \/ TwinLock(Handler)
    \/ SetAttribute(Handler)
    \/ TwinUnlock(Handler)
    \/ Idle(Handler) /\ CallRemoveProperty(Handler, Handler)
    \/ RemoveProperty(Handler)
    \/ Subscribe("T", {1})
    \/ Idle(Handler) /\ PublishLock(Handler, "T", 1)
    \/ PublishSend(Handler)
    \/ PublishReturn(Handler)

SpecLocks == Init /\ [][NextLocks]_vars

\* Two request handlers work on the feature "temperature" of one twin, concurrently:
\* the first makes it and adds it; then each gets it from the twin into its local
\* variable, sets or removes a property on that and gives it to UpdateFeature. As in
\* TestFeatureStateConcurrency, a goroutine also calls SetProperty on the other's
\* FeatureState through a pointer.
OnTemperature(t) == tcall'[t].id = "temperature"

NextHandlers ==
    \/ New("a", "sensor", 1)
    \/ \E t \in Callers :
         \/ Idle(t) /\ FreeMaps = FsMaps /\ NewFeatureState(t)
         \/ Idle(t) /\ hold[t].src = "new" /\ CallAddLocal(t) /\ OnTemperature(t)
         \/ Idle(t) /\ CallGetFeature(t) /\ OnTemperature(t)
         \/ Idle(t) /\ hold[t].src = "get" /\ CallUpdateLocal(t, FALSE) /\ OnTemperature(t)
         \/ TwinLock(t)
         \/ TwinLookup(t)
         \/ AddFeature(t)
         \/ UpdateFeature(t)
         \/ TwinUnlock(t)
         \/ TwinRLock(t)
         \/ GetFeature(t)
         \/ \E o \in Callers : feature[o] # NoFeatureState /\ CallSetProperty(t, o)
         \/ feature[t] # NoFeatureState /\ CallRemoveProperty(t, t)
         \/ SetProperty(t)
         \/ RemoveProperty(t)

SpecHandlers == Init /\ [][NextHandlers]_vars

\* Two request handlers work on the feature "temperature" of one twin, concurrently,
\* each once: Rival, which also made the feature, gets it, sets its definition and
\* gives it to UpdateFeature, or removes it; Handler gets it, sets a property and
\* gives it to UpdateFeature. Both read the error afterwards.
NextUpdate ==
    \/ New("a", "sensor", 1)
    \/ FreeMaps = FsMaps /\ NewFeatureState(Rival)
    \/ hold[Rival].src = "new" /\ CallAddLocal(Rival) /\ OnTemperature(Rival)
    \/ hold[Rival].src = "get" /\ hold[Rival].own = NilRef /\ MakeList(Rival, <<"d1">>)
    \/ hold[Rival].src = "get" /\ CallFsSetDefinition(Rival, Rival)
    \/ FsSetDefinition(Rival)
    \/ hold[Rival].src = "get" /\ CallRemoveFeature(Rival) /\ OnTemperature(Rival)
    \/ hold[Handler].src = "get" /\ CallSetProperty(Handler, Handler)
    \/ SetProperty(Handler)
    \/ \E t \in {Rival, Handler} :
         \/ "temperature" \in DOMAIN features[1] /\ hold[t].src # "get"
               /\ CallGetFeature(t) /\ OnTemperature(t)
         \/ hold[t].src = "get" /\ CallUpdateLocal(t, TRUE) /\ OnTemperature(t)
         \/ TwinRLock(t)
         \/ GetFeature(t)
         \/ TwinLock(t)
         \/ TwinLookup(t)
         \/ AddFeature(t)
         \/ UpdateFeature(t)
         \/ RemoveFeature(t)
         \/ TwinUnlock(t)

SpecUpdate == Init /\ [][NextUpdate]_vars

\* One goroutine constructs twins, registers and deletes them, sets and removes their
\* attribute, and scans the Registry by attribute, one call after the other.
NextFindAttribute ==
    \/ \E id \in IDs : NextNewID(id) /\ New(id, "sensor", 2)
    \/ Idle(Handler) /\ CallCreate(Handler)
    \/ Idle(Handler) /\ CallDelete(Handler)
    \/ Idle(Handler) /\ CallFindByAttribute(Handler, AttrValues)
    \/ Lock(Handler)
    \/ Lookup(Handler)
    \/ Create(Handler)
    \/ Delete(Handler)
    \/ FindStart(Handler)
    \/ FindNext(Handler)
    \/ FindEnter(Handler)
    \/ FindRead(Handler)
    \/ Unlock(Handler)
    \/ Idle(Handler) /\ CallSetAttribute(Handler, AttrValues)
    \/ Idle(Handler) /\ CallRemoveAttribute(Handler)
    \/ TwinLock(Handler)
    \/ SetAttribute(Handler)
    \/ RemoveAttribute(Handler)
    \/ TwinUnlock(Handler)

SpecFindAttribute == Init /\ [][NextFindAttribute]_vars

\* One goroutine constructs twins and registers them, adds a FeatureState it made to
\* registered twins and removes features from them, never calling Registry.Update,
\* and scans the Registry by feature, one call after the other.
OnRegistered(t) == tcall'[t].dt \in {twins[id] : id \in DOMAIN twins}

NextFindFeature ==
    \/ \E id \in IDs : NextNewID(id) /\ New(id, "sensor", 2)
    \/ Idle(Handler) /\ CallCreate(Handler)
    \/ Idle(Handler) /\ CallFindByFeature(Handler)
    \/ Lock(Handler)
    \/ Lookup(Handler)
    \/ Create(Handler)
    \/ FindStart(Handler)
    \/ FindNext(Handler)
    \/ FindEnter(Handler)
    \/ FindRead(Handler)
    \/ Unlock(Handler)
    \/ Idle(Handler) /\ FreeMaps = FsMaps /\ NewFeatureState(Handler)
    \/ Idle(Handler) /\ hold[Handler].src = "new" /\ CallSetProperty(Handler, Handler)
    \/ SetProperty(Handler)
    \/ Idle(Handler) /\ CallAddLocal(Handler) /\ OnRegistered(Handler)
    \/ Idle(Handler) /\ CallRemoveFeature(Handler) /\ OnRegistered(Handler)
    \/ TwinLock(Handler)
    \/ TwinLookup(Handler)
    \/ AddFeature(Handler)
    \/ RemoveFeature(Handler)
    \/ TwinUnlock(Handler)

SpecFindFeature == Init /\ [][NextFindFeature]_vars

\* One goroutine works on one twin at any time of the clock: it sets and removes the
\* attribute and sets the definition, makes a FeatureState and adds it as the feature
\* "temperature", gets the feature, sets a property on what it got, gives that to
\* UpdateFeature, and removes the feature.
NextModified ==
    \/ Tick
    \/ New("a", "sensor", 1)
    \/ Idle(Handler) /\ CallSetAttribute(Handler, StringValues)
    \/ Idle(Handler) /\ CallRemoveAttribute(Handler)
    \/ Idle(Handler) /\ CallSetDefinition(Handler)
    \/ SetAttribute(Handler)
    \/ RemoveAttribute(Handler)
    \/ SetDefinition(Handler)
    \/ Idle(Handler) /\ FreeMaps = FsMaps /\ NewFeatureState(Handler)
    \/ Idle(Handler) /\ hold[Handler].src = "new" /\ CallAddLocal(Handler)
          /\ OnTemperature(Handler)
    \/ Idle(Handler) /\ CallGetFeature(Handler) /\ OnTemperature(Handler)
    \/ Idle(Handler) /\ hold[Handler].src = "get" /\ hold[Handler].exists
          /\ CallSetProperty(Handler, Handler)
    \/ Idle(Handler) /\ hold[Handler].src = "get" /\ CallUpdateLocal(Handler, FALSE)
          /\ OnTemperature(Handler)
    \/ Idle(Handler) /\ CallRemoveFeature(Handler) /\ OnTemperature(Handler)
    \/ TwinLock(Handler)
    \/ TwinLookup(Handler)
    \/ AddFeature(Handler)
    \/ UpdateFeature(Handler)
    \/ RemoveFeature(Handler)
    \/ TwinUnlock(Handler)
    \/ TwinRLock(Handler)
    \/ GetFeature(Handler)
    \/ SetProperty(Handler)

SpecModified == Init /\ [][NextModified]_vars

\* One goroutine works on a FeatureState at any time of the clock: it makes one and
\* adds it to the twin as the feature "temperature", or gets that feature from the
\* twin, alone or with all features, and calls the mutating methods on its local
\* variable.
NextLastModified ==
    \/ Tick
    \/ New("a", "sensor", 1)
    \/ Idle(Handler) /\ FreeMaps = FsMaps /\ NewFeatureState(Handler)
    \/ Idle(Handler) /\ hold[Handler].src = "new" /\ CallAddLocal(Handler)
          /\ OnTemperature(Handler)
    \/ Idle(Handler) /\ CallGetFeature(Handler) /\ OnTemperature(Handler)
    \/ Idle(Handler) /\ CallGetAllFeatures(Handler)
    \/ TwinLock(Handler)
    \/ TwinLookup(Handler)
    \/ AddFeature(Handler)
    \/ TwinUnlock(Handler)
    \/ TwinRLock(Handler)
    \/ GetFeature(Handler)
    \/ GetAllFeatures(Handler)
    \/ PickFeature(Handler, "temperature")
    \/ feature[Handler] # NoFeatureState /\
          \/ CallSetProperty(Handler, Handler)
          \/ CallRemoveProperty(Handler, Handler)
          \/ CallSetDesiredProperty(Handler, Handler)
          \/ CallRemoveDesiredProperty(Handler, Handler)
          \/ CallFsSetDefinition(Handler, Handler)
    \/ SetProperty(Handler)
    \/ RemoveProperty(Handler)
    \/ FsSetDefinition(Handler)
    \/ hold[Handler].own = NilRef /\ MakeList(Handler, <<"d1">>)

SpecLastModified == Init /\ [][NextLastModified]_vars

\* One goroutine sets and removes the attributes of a twin and the properties and
\* desired properties of a FeatureState, reads them one by one, asks once for all of
\* one kind, and writes and deletes entries of the map it was given.
NextCopies ==
    \/ New("a", "sensor", 1)
    \/ Idle(Handler) /\ FreeMaps = FsMaps /\ NewFeatureState(Handler)
    \/ Idle(Handler) /\
          \/ CallSetAttribute(Handler, StringValues)
          \/ CallRemoveAttribute(Handler)
          \/ CallGetAttribute(Handler)
          \/ hold[Handler].map = NilRef /\ CallGetAllAttributes(Handler)
    \/ TwinLock(Handler)
    \/ SetAttribute(Handler)
    \/ RemoveAttribute(Handler)
    \/ TwinUnlock(Handler)
    \/ TwinRLock(Handler)
    \/ GetAttribute(Handler)
    \/ GetAllAttributes(Handler)
    \/ feature[Handler] # NoFeatureState /\
          \/ CallSetProperty(Handler, Handler)
          \/ CallRemoveProperty(Handler, Handler)
          \/ CallSetDesiredProperty(Handler, Handler)
          \/ CallRemoveDesiredProperty(Handler, Handler)
          \/ CallGetProperty(Handler, Handler)
          \/ CallGetDesiredProperty(Handler, Handler)
          \/ hold[Handler].map = NilRef /\ CallGetAllProperties(Handler, Handler)
          \/ hold[Handler].map = NilRef /\ CallGetAllDesiredProperties(Handler, Handler)
    \/ SetProperty(Handler)
    \/ RemoveProperty(Handler)
    \/ GetProperty(Handler)
    \/ GetAllProperties(Handler)
    \/ \E k \in PropKeys \cup AttrKeys, v \in PropValues : WriteMap(Handler, k, v)
    \/ \E k \in PropKeys \cup AttrKeys : DeleteMap(Handler, k)

SpecCopies == Init /\ [][NextCopies]_vars

\* One goroutine makes a list, gives it to SetDefinition of a FeatureState, asks for
\* the definition, and changes elements of the list it made and of the list it got.
NextDefinition ==
    \/ Idle(Handler) /\ FreeMaps = FsMaps /\ NewFeatureState(Handler)
    \/ hold[Handler].own = NilRef /\
          \E elems \in {<<"d1">>, <<"d1", "d2">>} : MakeList(Handler, elems)
    \/ feature[Handler] # NoFeatureState /\
          \/ CallFsSetDefinition(Handler, Handler)
          \/ CallGetDefinition(Handler, Handler)
    \/ FsSetDefinition(Handler)
    \/ GetDefinition(Handler)
    \/ \E a \in ArrRefs, i \in 1..2, d \in Definitions : WriteElem(Handler, a, i, d)

SpecDefinition == Init /\ [][NextDefinition]_vars

\* Two request handlers work on the feature "temperature" of one twin, each on what
\* it got from the twin: it sets or removes a property on its local variable and
\* gives that to UpdateFeature. In the fair specification the scheduler runs every
\* goroutine that can go on to its next position, and a goroutine that can take a
\* mutex again and again does get it.
NextWriters ==
    \/ New("a", "sensor", 1)
    \/ \E t \in Callers :
         \/ Idle(t) /\ FreeMaps = FsMaps /\ NewFeatureState(t)
         \/ Idle(t) /\ hold[t].src = "new" /\ CallAddLocal(t) /\ OnTemperature(t)
         \/ Idle(t) /\ CallGetFeature(t) /\ OnTemperature(t)
         \/ Idle(t) /\ hold[t].src = "get" /\ CallUpdateLocal(t, FALSE) /\ OnTemperature(t)
         \/ TwinLock(t)
         \/ TwinLookup(t)
         \/ AddFeature(t)
         \/ UpdateFeature(t)
         \/ TwinUnlock(t)
         \/ TwinRLock(t)
         \/ GetFeature(t)
         \/ feature[t] # NoFeatureState /\ CallSetProperty(t, t)
         \/ feature[t] # NoFeatureState /\ CallRemoveProperty(t, t)
         \/ SetProperty(t)
         \/ RemoveProperty(t)

SpecWriters == Init /\ [][NextWriters]_vars

SpecWritersFair ==
    /\ SpecWriters
    /\ \A t \in Callers :
         /\ SF_<<tpc, fpc>>(TwinLock(t)) /\ SF_<<tpc, fpc>>(TwinRLock(t))
         /\ WF_<<tpc, fpc>>(TwinLookup(t)) /\ WF_<<tpc, fpc>>(AddFeature(t)) /\ WF_<<tpc, fpc>>(UpdateFeature(t))
         /\ WF_<<tpc, fpc>>(TwinUnlock(t)) /\ WF_<<tpc, fpc>>(GetFeature(t))
         /\ WF_<<tpc, fpc>>(SetProperty(t)) /\ WF_<<tpc, fpc>>(RemoveProperty(t))

\* One goroutine constructs two twins of the id "a", registers one, replaces the
\* stored entry with Update, sets the attribute through any of the references it has,
\* and reads the Registry with Get, List and FindByAttribute, one call after the
\* other.
NextStored ==
    \/ New("a", "sensor", 2)
    \/ Idle(Handler) /\ CallCreate(Handler)
    \/ Idle(Handler) /\ CallUpdate(Handler)
    \/ Idle(Handler) /\ CallGet(Handler)
    \/ Idle(Handler) /\ CallList(Handler, FALSE)
    \/ Idle(Handler) /\ CallFindByAttribute(Handler, StringValues)
    \/ Lock(Handler)
    \/ Lookup(Handler)
    \/ Create(Handler)
    \/ Update(Handler)
    \/ Get(Handler)
    \/ List(Handler)
    \/ FindStart(Handler)
    \/ FindNext(Handler)
    \/ FindEnter(Handler)
    \/ FindRead(Handler)
    \/ Unlock(Handler)
    \/ Idle(Handler) /\ CallSetAttribute(Handler, StringValues)
    \/ TwinLock(Handler)
    \/ SetAttribute(Handler)
    \/ TwinUnlock(Handler)

SpecStored == Init /\ [][NextStored]_vars

\* The steps of the calls a handler makes, and of the handler itself.
HandlerStep(t) ==
    \/ WgAdd(t) \/ Begin(t) \/ Got(t) \/ Fields(t) \/ Attr(t) \/ NewFeature(t)
    \/ GotFeature(t) \/ GotProperty(t) \/ Set(t) \/ Written(t) \/ Stored(t) \/ Listed(t)
    \/ Published(t) \/ WgDone(t)

CallStep(t) ==
    \/ Lock(t) \/ Lookup(t) \/ Create(t) \/ Get(t) \/ Update(t) \/ Delete(t) \/ List(t)
    \/ Unlock(t)
    \/ TwinLock(t) \/ TwinLookup(t) \/ AddFeature(t) \/ UpdateFeature(t) \/ RemoveFeature(t)
    \/ SetAttribute(t) \/ TwinUnlock(t)
    \/ TwinRLock(t) \/ GetFeature(t) \/ GetAllFeatures(t)
    \/ SetProperty(t) \/ RemoveProperty(t) \/ GetProperty(t) \/ GetAllProperties(t)
    \/ PublishReturn(t)

\* The requests of the clients: about the twin "a", its feature "temperature" and the
\* property "value" of that feature.
TwinRequests ==
    {Request("CreateTwin", "a", "", "", v, "sensor", FALSE) : v \in {"", "lab"}}
    \cup {Request("CreateTwin", "a", "", "", "", "", FALSE),
          Request("UpdateTwin", "a", "", "", "hall", "light", FALSE),
          Request("UpdateTwin", "a", "", "", "", "", TRUE),
          Request("GetTwin", "a", "", "", "", "", FALSE),
          Request("DeleteTwin", "a", "", "", "", "", FALSE),
          Request("ListTwins", "", "", "", "", "", FALSE)}
FeatureRequests ==
    {Request(op, "a", "temperature", "", "", "", FALSE) :
        op \in {"GetFeatures", "GetFeature", "DeleteFeature", "GetProperties"}}
    \cup {Request("UpdateFeature", "a", "temperature", "value", "off", "", FALSE),
          Request("UpdateFeature", "a", "temperature", "", "", "", TRUE),
          Request("UpdateProperties", "a", "temperature", "value", "off", "", FALSE)}
PropertyRequests ==
    {Request(op, "a", "temperature", "value", "", "", FALSE) :
        op \in {"GetProperty", "DeleteProperty"}}
    \cup {Request("UpdateProperty", "a", "temperature", "value", "off", "", b) :
             b \in BOOLEAN}
Requests == TwinRequests \cup FeatureRequests \cup PropertyRequests

\* The server has answered the two requests that make the twin "a" and its feature
\* "temperature" with the property "value".
SetUp == Served >= 2 /\ (req[Handler].n > 2 \/ req[Handler].stage = "done")

\* A client makes the twin "a" and its feature "temperature", one request after the
\* other; then two clients send one request each, at any time.
NextRequests ==
    \/ Served = 0 /\ Serve(Handler, Request("CreateTwin", "a", "", "", "", "sensor", FALSE))
    \/ Served = 1 /\ req[Handler].stage = "done"
          /\ Serve(Handler, Request("UpdateFeature", "a", "temperature", "value", "on", "", FALSE))
    \/ \E t \in Callers :
         \/ SetUp /\ req[t].n <= 2 /\ \E r \in Requests : Serve(t, r)
         \/ HandlerStep(t)
         \/ CallStep(t)

SpecRequests == Init /\ [][NextRequests]_vars

\* A client makes the twin "a"; then two clients send one request each, at any time:
\* to make the twin "a", or to put the feature "temperature", which the twin does
\* not have yet.
NextConflict ==
    \/ Served = 0 /\ Serve(Handler, Request("CreateTwin", "a", "", "", "", "sensor", FALSE))
    \/ \E t \in Callers :
         \/ /\ Served >= 1 /\ (req[Handler].n > 1 \/ req[Handler].stage = "done")
            /\ req[t].n <= 1
            /\ \/ Serve(t, Request("CreateTwin", "a", "", "", "", "sensor", FALSE))
               \/ \E v \in PropValues :
                    Serve(t, Request("UpdateFeature", "a", "temperature", "value", v, "", FALSE))
         \/ WgAdd(t) \/ Begin(t) \/ Got(t) \/ Fields(t) \/ NewFeature(t) \/ GotFeature(t)
         \/ Set(t) \/ Written(t) \/ Stored(t) \/ Published(t) \/ WgDone(t)
         \/ Lock(t) \/ Lookup(t) \/ Create(t) \/ Get(t) \/ Update(t) \/ Unlock(t)
         \/ TwinRLock(t) \/ GetFeature(t) \/ SetProperty(t)
         \/ TwinLock(t) \/ TwinLookup(t) \/ AddFeature(t) \/ UpdateFeature(t) \/ TwinUnlock(t)
         \/ PublishReturn(t)

SpecConflict == Init /\ [][NextConflict]_vars

\* One client makes the twin "a" and then puts its feature "temperature" again and
\* again, one request after the other: with one property, or with none.
PutKeys == {"value", "unit"}

NextPut ==
    \/ Served = 0 /\ Serve(Handler, Request("CreateTwin", "a", "", "", "", "sensor", FALSE))
    \/ /\ Served \in 1..MaxPuts /\ req[Handler].stage = "done"
       /\ \/ \E k \in PutKeys, v \in PropValues :
               Serve(Handler, Request("UpdateFeature", "a", "temperature", k, v, "", FALSE))
          \/ Serve(Handler, Request("UpdateFeature", "a", "temperature", "", "", "", FALSE))
    \/ WgAdd(Handler) \/ Begin(Handler) \/ Got(Handler) \/ Fields(Handler)
    \/ NewFeature(Handler) \/ GotFeature(Handler) \/ Set(Handler) \/ Written(Handler)
    \/ Stored(Handler) \/ Published(Handler) \/ WgDone(Handler)
    \/ Lock(Handler) \/ Lookup(Handler) \/ Create(Handler) \/ Get(Handler)
    \/ Update(Handler) \/ Unlock(Handler)
    \/ TwinRLock(Handler) \/ GetFeature(Handler) \/ SetProperty(Handler)
    \/ TwinLock(Handler) \/ TwinLookup(Handler) \/ AddFeature(Handler)
    \/ UpdateFeature(Handler) \/ TwinUnlock(Handler)
    \/ PublishReturn(Handler)

SpecPut == Init /\ [][NextPut]_vars

\* Clients send requests, each at any time, while main calls Shutdown with a context
\* whose deadline passes at any time: nothing stops the listener that Start made, so
\* requests are accepted before, during and after the call.
NextShutdown ==
    \/ ShutdownCall
    \/ WaitReturns
    \/ ShutdownReturns
    \/ ShutdownDeadline
    \/ \E t \in Callers :
         \/ /\ req[t].stage = "none"
            /\ \/ Serve(t, Request("CreateTwin", "a", "", "", "", "sensor", FALSE))
               \/ Serve(t, Request("GetTwin", "a", "", "", "", "", FALSE))
               \/ Serve(t, Request("ListTwins", "", "", "", "", "", FALSE))
         \/ WgAdd(t) \/ Begin(t) \/ Got(t) \/ Fields(t) \/ Stored(t) \/ Listed(t)
         \/ Published(t) \/ WgDone(t)
         \/ Lock(t) \/ Lookup(t) \/ Create(t) \/ Get(t) \/ List(t) \/ Unlock(t)
         \/ PublishReturn(t)

SpecShutdown == Init /\ [][NextShutdown]_vars

\* ================================================================ claims

\* ---------------------------------------------------------------- C1
\* C1: after any interleaving of Create/Update/Delete an id is present in the Registry
\* iff the most recent successful Create or Delete on it was a Create (Update never
\* inserts), and a Get that returns does so with ErrTwinNotFound exactly when the id's
\* last successful Create/Delete was not a Create.
C1_PresentIffLastCreate ==
    /\ DOMAIN twins \subseteq IDs
    /\ \A id \in IDs : (id \in DOMAIN twins) <=> (lastOK[id].op = "create")
    /\ \A t \in Threads :
         (pc[t] = "unlock" /\ call[t].op = "Get")
            => ((ret[t].err = ErrTwinNotFound) <=> (lastOK[call[t].id].op # "create"))

\* A Get fails on an id that was created and then deleted.
C1_Witness ==
    \E t \in Threads :
        /\ pc[t] = "unlock" /\ call[t].op = "Get"
        /\ lastOK[call[t].id].op = "delete"
        /\ ret[t].err = ErrTwinNotFound

\* ---------------------------------------------------------------- C2
\* C2: Create of a twin whose id is present returns ErrTwinAlreadyExists and changes
\* neither the map (the id still maps to the twin stored before) nor any twin.
C2_DuplicateCreateRejected ==
    [][\A t \in Threads :
         (/\ pc[t] = "act" /\ call[t].op = "Create" /\ pc'[t] = "unlock"
          /\ heap[call[t].dt].ID \in DOMAIN twins)
            => /\ ret'[t].err = ErrTwinAlreadyExists
               /\ twins' = twins
               /\ heap' = heap]_vars

\* A Create was rejected for a twin other than the stored one.
C2_Witness ==
    \E t \in Threads :
        /\ pc[t] = "unlock" /\ call[t].op = "Create"
        /\ ret[t].err = ErrTwinAlreadyExists
        /\ twins[heap[call[t].dt].ID] # call[t].dt

\* ---------------------------------------------------------------- C3
\* C3: Get, Update and Delete on an id that is not present return ErrTwinNotFound and
\* leave the map unchanged.
C3_AbsentIdNotFound ==
    [][\A t \in Threads :
         (/\ pc[t] = "act" /\ call[t].op \in {"Get", "Update", "Delete"}
          /\ pc'[t] = "unlock"
          /\ CallID(call[t]) \notin DOMAIN twins)
            => /\ ret'[t].err = ErrTwinNotFound
               /\ twins' = twins]_vars

\* An Update and a Delete have failed on absent ids, and a Get is failing on one.
C3_Witness ==
    \E t \in Threads :
        /\ pc[t] = "unlock" /\ call[t].op \in {"Get", "Update", "Delete"}
        /\ CallID(call[t]) \notin DOMAIN twins
        /\ ret[t].err = ErrTwinNotFound

\* ---------------------------------------------------------------- C4
\* C4: when the workers' twins have pairwise distinct ids, every worker's Create
\* returns nil, and the List taken after all have returned holds exactly the workers'
\* twins, NumThreads of them.
DistinctIDs ==
    \A v, w \in Workers : v # w => heap[call[v].dt].ID # heap[call[w].dt].ID

C4_ConcurrentCreateDistinct ==
    (AllWorkersDone /\ DistinctIDs)
        => /\ \A w \in Workers : ret[w].err = NilErr
           /\ pc[Main] = "done"
                 => /\ ret[Main].list = {call[w].dt : w \in Workers}
                    /\ Cardinality(ret[Main].list) = NumThreads

C4_Witness ==
    /\ AllWorkersDone /\ DistinctIDs
    /\ pc[Main] = "done"
    /\ Cardinality(ret[Main].list) = NumThreads

\* ---------------------------------------------------------------- C5
\* C5: a constructed twin has the id and type its constructor was given and
\* CreatedAt = ModifiedAt; once Create of a twin succeeded, Get of its id returns that
\* twin, with that id and type.
C5_CreateThenGet ==
    /\ \A r \in Allocated :
         /\ heap[r].ID = made[r].id
         /\ heap[r].Type = made[r].type
         /\ heap[r].CreatedAt = heap[r].ModifiedAt
    /\ (pc[Main] = "unlock" /\ call[Main].op = "Get" /\ lastOK[call[Main].id].op = "create")
          => /\ ret[Main].err = NilErr
             /\ ret[Main].dt = lastOK[call[Main].id].dt
             /\ heap[ret[Main].dt].ID = call[Main].id
             /\ heap[ret[Main].dt].Type = made[lastOK[call[Main].id].dt].type

\* Get returns a twin constructed at a later time than another one, of type "light".
C5_Witness ==
    /\ pc[Main] = "unlock" /\ call[Main].op = "Get"
    /\ ret[Main].err = NilErr
    /\ heap[ret[Main].dt].Type = "light"
    /\ heap[ret[Main].dt].CreatedAt = MaxClock

\* ---------------------------------------------------------------- C6
\* C6: in every state of the bus a topic has an entry in PubSub.subscribers iff it has
\* at least one subscriber channel: no entry holds an empty slice (also after the last
\* channel of a topic is unsubscribed).
C6_TopicIffSubscriber ==
    /\ DOMAIN subscribers \subseteq Topics
    /\ \A topic \in Topics :
         (topic \in DOMAIN subscribers) <=> (Len(SubsOf(topic)) >= 1)
    /\ \A topic \in DOMAIN subscribers : Len(subscribers[topic]) >= 1

\* A channel was subscribed and then unsubscribed (it is open and in no slice), and
\* the map has no entry left.
C6_Witness ==
    /\ subscribers = EmptySubs
    /\ \E c \in Chans : chans[c].made /\ ~chans[c].closed

\* ---------------------------------------------------------------- C7
\* C7: Publish raises no panic, each of its steps can be taken whatever the channels
\* hold (it never waits for a consumer), and every Publish that was entered returns.
PublishCanStep ==
    /\ panic = "none"
    /\ \A t \in Threads :
         /\ pub[t].pc = "loop" => (pub[t].i \in 1..Len(pub[t].subs) /\ ENABLED PublishSend(t))
         /\ pub[t].pc = "return" => ENABLED PublishReturn(t)

C7_PublishCompletes ==
    /\ []PublishCanStep
    /\ (pub[Main].pc # "idle") ~> (pub[Main].pc = "idle")

\* A Publish is returning after both channels of the topic were full: the message is
\* in neither.
C7_Witness ==
    /\ pub[Main].pc = "return"
    /\ Len(pub[Main].subs) = 2
    /\ \A c \in FillChans :
         /\ Len(chans[c].buf) = Capacity
         /\ \A j \in 1..Capacity : chans[c].buf[j] # pub[Main].msg

\* ---------------------------------------------------------------- C8
\* C8: a subscribed channel that was never consumed and to whose topic M <= Capacity
\* messages were published (by the one publisher) since its Subscribe holds exactly
\* those M messages, with the topic and the payloads, in publish order.
TopicOf(c) == CHOOSE topic \in DOMAIN subscribers :
                 \E j \in 1..Len(subscribers[topic]) : subscribers[topic][j] = c

Messages(topic, payloads) ==
    [j \in 1..Len(payloads) |-> Message(topic, payloads[j])]

C8_DeliveredInOrder ==
    \A c \in Subscribed :
        (/\ pub[Main].pc = "idle"
         /\ lastRecv[c] = NoMessage
         /\ Len(sentTo[c]) <= Capacity)
            => chans[c].buf = Messages(TopicOf(c), sentTo[c])

\* Capacity messages were published to a channel's topic, and it holds them all.
C8_Witness ==
    \E c \in Subscribed :
        /\ pub[Main].pc = "idle"
        /\ lastRecv[c] = NoMessage
        /\ Len(sentTo[c]) = Capacity
        /\ Len(chans[c].buf) = Capacity

\* ---------------------------------------------------------------- C9
\* C9: no channel ever holds more than Capacity messages, and a send to a channel
\* that holds Capacity messages changes no channel while the publisher moves on to
\* the next subscriber.
C9_FullQueueDrops ==
    /\ [](\A c \in Chans : Len(chans[c].buf) <= Capacity)
    /\ [][\A t \in Threads :
            (/\ pub[t].pc = "loop"
             /\ pub'[t] # pub[t]
             /\ Len(chans[pub[t].subs[pub[t].i]].buf) = Capacity)
               => /\ chans' = chans
                  /\ pub'[t].i = pub[t].i + 1
                  /\ panic' = "none"]_vars

\* A message was published to a full channel: the channel holds the first Capacity
\* messages and not the last one.
C9_Witness ==
    \E c \in Subscribed :
        /\ pub[Main].pc = "idle"
        /\ lastRecv[c] = NoMessage
        /\ Len(sentTo[c]) = Capacity + 1
        /\ chans[c].buf = Messages("T", SubSeq(sentTo[c], 1, Capacity))

\* --------------------------------------------------------------- C10
\* C10: each subscriber of the topic gets its own send: a send enqueues the message
\* once on its channel when that has room and changes nothing when it is full, and
\* touches no other channel; so after a Publish a never-consumed channel holds the
\* first Capacity messages published to its topic, whatever the other channels hold,
\* and no channel ever holds a message twice.
NoDuplicates ==
    \A c \in Chans :
        \A j, k \in 1..Len(chans[c].buf) : j # k => chans[c].buf[j] # chans[c].buf[k]

Prefix(seq, n) == SubSeq(seq, 1, IF Len(seq) < n THEN Len(seq) ELSE n)

PerSubscriber ==
    /\ NoDuplicates
    /\ \A c \in Subscribed :
         (pub[Main].pc = "idle" /\ lastRecv[c] = NoMessage)
            => chans[c].buf = Messages(TopicOf(c), Prefix(sentTo[c], Capacity))

C10_DropPerSubscriber ==
    /\ []PerSubscriber
    /\ [][\A t \in Threads :
            (pub[t].pc = "loop" /\ pub'[t] # pub[t])
               => LET c == pub[t].subs[pub[t].i]
                  IN  /\ chans'[c].buf = IF Len(chans[c].buf) < Capacity
                                           THEN Append(chans[c].buf, pub[t].msg)
                                           ELSE chans[c].buf
                      /\ \A d \in Chans \ {c} : chans'[d] = chans[d]]_vars

\* The topic has a full channel and one with room; the last message published is on
\* the second only.
C10_Witness ==
    \E c, d \in Subscribed :
        /\ pub[Main].pc = "idle"
        /\ published = Capacity + 1
        /\ Len(chans[c].buf) = Capacity
        /\ \A j \in 1..Capacity : chans[c].buf[j] # Message("T", published)
        /\ Len(chans[d].buf) < Capacity
        /\ chans[d].buf # <<>>
        /\ chans[d].buf[Len(chans[d].buf)] = Message("T", published)

\* --------------------------------------------------------------- C11
\* C11: once Unsubscribe(T, q) has returned for the topic T that q was subscribed
\* under, q is in no topic's slice and in no running Publish's copy of one, and no
\* step enqueues on q (its buffer only loses messages to its consumer), whatever the
\* publishers do and to whatever topic.
RemainingOf(t) ==
    IF pub[t].pc = "loop"
      THEN {pub[t].subs[j] : j \in pub[t].i..Len(pub[t].subs)}
      ELSE {}

C11_NoDeliveryAfterUnsubscribe ==
    /\ [](\A c \in removed :
            /\ c \notin Subscribed
            /\ \A t \in Threads : c \notin RemainingOf(t))
    /\ [][\A c \in removed :
            \/ chans'[c].buf = chans[c].buf
            \/ chans[c].buf # <<>> /\ chans'[c].buf = Tail(chans[c].buf)]_vars

\* A Publish to the topic of an unsubscribed channel has sent to the channel that is
\* still subscribed to that topic.
C11_Witness ==
    \E c \in removed, t \in Threads :
        /\ pub[t].pc = "return"
        /\ pub[t].msg.Topic = subTopic[c]
        /\ Len(pub[t].subs) >= 1
        /\ pub[t].msg.Payload \notin {chans[c].buf[j].Payload : j \in 1..Len(chans[c].buf)}
        /\ chans[pub[t].subs[1]].buf # <<>>

\* --------------------------------------------------------------- C12
\* C12 as stated: Close closes every channel that Subscribe has returned before it.
C12_ClosesEveryQueueEverReturned ==
    [][Close => \A c \in Chans : chans[c].made => chans'[c].closed]_vars

\* C12, amended: Close closes every channel that is subscribed when it runs, and
\* these are all the channels that Subscribe returned and Unsubscribe did not remove;
\* a closed channel stays closed and gets no message, so that its consumer reads
\* what it holds and then end-of-stream; and no step enqueues on a channel that is closed or was
\* unsubscribed, that is on any channel made before a Close. No send or close panics.
C12_ClosesSubscribedQueues ==
    /\ [](panic = "none")
    /\ [](\A c \in Chans :
            chans[c].made => \/ c \in Subscribed /\ ~chans[c].closed
                             \/ c \notin Subscribed /\ chans[c].closed
                             \/ c \notin Subscribed /\ c \in removed)
    /\ [][Close => /\ \A c \in Subscribed : chans'[c].closed
                   /\ \A c \in Chans : chans[c].made => (chans'[c].closed \/ c \in removed)]_vars
    /\ [][\A c \in Chans :
            (chans[c].closed \/ c \in removed)
               => /\ chans'[c].closed = chans[c].closed
                  /\ \/ chans'[c].buf = chans[c].buf
                     \/ chans[c].buf # <<>> /\ chans'[c].buf = Tail(chans[c].buf)]_vars

\* After a Close, a Publish has been made to the topic of a closed channel whose
\* consumer is at end-of-stream, while a channel unsubscribed before the Close is open.
C12_Witness ==
    \E c, d \in Chans, t \in Threads :
        /\ EndOfStream(c)
        /\ lastRecv[c] # NoMessage
        /\ d \in removed /\ ~chans[d].closed
        /\ pub[t].pc = "return"
        /\ pub[t].msg.Topic = subTopic[c]
        /\ pub[t].msg.Payload > lastRecv[c].Payload

\* --------------------------------------------------------------- C13
\* C13: one goroutine publishes to the topic, so the payloads (the numbers of the
\* Publish calls) are published in increasing order. What a subscriber's consumer
\* dequeues is an order-preserving subsequence of what was published, without
\* duplicates: every message dequeued or waiting in the channel was published to the
\* topic while the channel was subscribed, each dequeue takes the head of the
\* channel, and the payloads of the last message dequeued and of the messages
\* waiting behind it increase strictly, whatever was dropped in between.
Payloads(c) == [j \in 1..Len(chans[c].buf) |-> chans[c].buf[j].Payload]

Increasing(seq) == \A j, k \in 1..Len(seq) : j < k => seq[j] < seq[k]

C13_DequeuedInPublishOrder ==
    /\ [](\A c \in Chans :
            /\ Increasing(<<lastRecv[c].Payload>> \o Payloads(c))
            /\ Increasing(sentTo[c])
            /\ \A j \in 1..Len(chans[c].buf) :
                 /\ chans[c].buf[j].Topic = subTopic[c]
                 /\ \E k \in 1..Len(sentTo[c]) : sentTo[c][k] = chans[c].buf[j].Payload)
    /\ [][\A c \in Chans :
            lastRecv'[c] # lastRecv[c]
               => /\ chans[c].buf # <<>>
                  /\ lastRecv'[c] = Head(chans[c].buf)
                  /\ chans'[c].buf = Tail(chans[c].buf)
                  /\ lastRecv'[c].Payload > lastRecv[c].Payload]_vars

\* The consumer has dequeued the first message; of the two messages published to the
\* full channel the first was dropped before that and the second enqueued after it.
C13_Witness ==
    \E c \in Subscribed :
        /\ lastRecv[c].Payload = 1
        /\ Len(chans[c].buf) = Capacity
        /\ chans[c].buf[Capacity - 1].Payload = Capacity
        /\ chans[c].buf[Capacity].Payload = Capacity + 2

\* --------------------------------------------------------------- C14
\* C14: when the NumThreads (<= Capacity) workers have each published one message to
\* the topic and returned, with nothing dequeued, every channel subscribed to the
\* topic holds NumThreads messages, one of each worker, in whatever order.
AllPublished == published = NumThreads /\ \A t \in Threads : pub[t].pc = "idle"

C14_EveryQueueHoldsAll ==
    (NumThreads <= Capacity /\ AllPublished)
        => \A c \in Subscribed :
              /\ Len(chans[c].buf) = NumThreads
              /\ {chans[c].buf[j] : j \in 1..NumThreads}
                    = {Message("T", n) : n \in 1..NumThreads}

\* All have published to MaxChans channels, two of which hold the messages in
\* different orders.
C14_Witness ==
    /\ AllPublished
    /\ Cardinality(Subscribed) = MaxChans
    /\ \E c, d \in Subscribed : chans[c].buf # chans[d].buf

\* --------------------------------------------------------------- C15
\* C15: a Publish sends to the channels subscribed under exactly its topic string,
\* so every message a channel holds or has handed to its consumer has the topic the
\* channel was subscribed under; a channel subscribed under "twin.+" gets nothing
\* from a Publish to "twin.created", "twin.updated" or "twin.deleted".
C15_ExactTopicMatch ==
    /\ \A t \in Threads :
         \A j \in 1..Len(pub[t].subs) : subTopic[pub[t].subs[j]] = pub[t].msg.Topic
    /\ \A c \in Chans :
         /\ \A j \in 1..Len(chans[c].buf) : chans[c].buf[j].Topic = subTopic[c]
         /\ lastRecv[c] # NoMessage => lastRecv[c].Topic = subTopic[c]
         /\ subTopic[c] = "twin.+"
               => \A j \in 1..Len(chans[c].buf) :
                     chans[c].buf[j].Topic \notin {"twin.created", "twin.updated", "twin.deleted"}

\* A Publish to "twin.created" has returned after sending to nobody while a channel
\* is subscribed under "twin.+", which holds nothing and has handed out nothing.
C15_Witness ==
    \E c \in Subscribed, t \in Threads :
        /\ subTopic[c] = "twin.+"
        /\ pub[t].pc = "return"
        /\ pub[t].msg.Topic = "twin.created"
        /\ pub[t].subs = <<>>
        /\ chans[c].buf = <<>>
        /\ lastRecv[c] = NoMessage

\* --------------------------------------------------------------- C16
\* C16: a step of Unsubscribe(T, q) leaves in T's slice the channels other than q, in
\* the order they had, leaves every other topic as it was and changes no channel (q
\* is neither closed nor emptied) and raises no panic; and when T has no entry or q
\* is not in T's slice, Unsubscribe(T, q) can be called and can change nothing of the
\* bus.
SubsIn(m, topic) == IF topic \in DOMAIN m THEN m[topic] ELSE <<>>

IsIn(subs, ch) == \E j \in 1..Len(subs) : subs[j] = ch

Others(subs, ch) == SelectSeq(subs, LAMBDA x : x # ch)

BusState == <<subscribers, chans, psMutex, pub, panic>>

C16_UnsubscribeRemovesOnlyQ ==
    /\ [][\A topic \in Topics, ch \in Chans :
            Unsubscribe(topic, ch)
               => /\ SubsIn(subscribers', topic) = Others(SubsIn(subscribers, topic), ch)
                  /\ \A other \in Topics \ {topic} :
                       /\ (other \in DOMAIN subscribers') = (other \in DOMAIN subscribers)
                       /\ SubsIn(subscribers', other) = SubsIn(subscribers, other)
                  /\ chans' = chans
                  /\ panic' = "none"]_vars
    /\ [](\A topic \in Topics, ch \in Chans :
            (CanLock(psMutex) /\ ~IsIn(SubsIn(subscribers, topic), ch))
               => /\ ENABLED Unsubscribe(topic, ch)
                  /\ ~ENABLED (Unsubscribe(topic, ch) /\ BusState' # BusState))

\* The first of three channels of a topic was unsubscribed: the two others are left
\* in their order, and the channel is open; it can be unsubscribed once more.
C16_Witness ==
    \E topic \in DOMAIN subscribers, c \in removed :
        /\ subTopic[c] = topic
        /\ subscribers[topic] = <<2, 3>>
        /\ c = 1
        /\ ~chans[c].closed
        /\ ENABLED Unsubscribe(topic, c)

\* --------------------------------------------------------------- C17
\* C17: a Publish to a topic that has no entry goes straight to its return and, like
\* the return, changes neither the map nor any channel, and keeps nothing of the
\* message; and every message a channel holds or has handed out is of a Publish
\* that found the channel subscribed: none was published before its Subscribe.
PublishedWhileSubscribed(c, msg) ==
    \E k \in 1..Len(sentTo[c]) : msg = Message(subTopic[c], sentTo[c][k])

C17_NoHistory ==
    /\ [](\A c \in Chans :
            /\ \A j \in 1..Len(chans[c].buf) : PublishedWhileSubscribed(c, chans[c].buf[j])
            /\ lastRecv[c] # NoMessage => PublishedWhileSubscribed(c, lastRecv[c])
            /\ ~chans[c].made => sentTo[c] = <<>>)
    /\ [][\A t \in Threads :
            /\ (pub[t].pc = "idle" /\ pub'[t].pc # "idle"
                  /\ pub'[t].msg.Topic \notin DOMAIN subscribers)
                  => /\ pub'[t].pc = "return" /\ pub'[t].subs = <<>>
                     /\ subscribers' = subscribers
                     /\ chans' = chans
            /\ (pub[t].pc = "return" /\ pub[t].subs = <<>> /\ pub'[t] # pub[t])
                  => /\ pub'[t] = NoPub
                     /\ subscribers' = subscribers
                     /\ chans' = chans]_vars

\* A channel subscribed to a topic after a Publish to it holds nothing, while the
\* channel subscribed before holds the message; another Publish reached neither.
C17_Witness ==
    \E c, d \in Subscribed :
        /\ subTopic[c] = subTopic[d]
        /\ chans[d].buf # <<>>
        /\ sentTo[c] = <<>>
        /\ chans[c].buf = <<>>
        /\ published = MaxPublish
        /\ \A t \in Threads : pub[t].pc = "idle"
        /\ Len(sentTo[d]) < published

\* --------------------------------------------------------------- C18
\* C18: a step of Close leaves the map empty and raises no panic; and in a state with
\* an empty map, as the one a Close leaves when no Subscribe follows, Close can be
\* called again and can change nothing.
C18_CloseIdempotent ==
    /\ [](panic = "none")
    /\ [][Close => subscribers' = EmptySubs]_vars
    /\ []((subscribers = EmptySubs /\ CanLock(psMutex))
             => /\ ENABLED Close
                /\ ~ENABLED (Close /\ vars' # vars))

\* Close has closed two channels, one of which still holds a message, and can be
\* called again.
C18_Witness ==
    /\ subscribers = EmptySubs
    /\ CanLock(psMutex)
    /\ \E c, d \in Chans : c # d /\ chans[c].closed /\ chans[d].closed /\ chans[c].buf # <<>>
    /\ ENABLED Close

\* --------------------------------------------------------------- C19
\* C19: AddFeature(id, f) on a twin that has a feature id returns
\* ErrFeatureAlreadyExists and changes neither dt.Features (so not the stored
\* feature) nor ModifiedAt; and when the workers' concurrent AddFeature calls on the
\* twin have all returned, of those given the same id exactly one has returned nil,
\* the others ErrFeatureAlreadyExists, and the twin holds that one's feature.
AddersOf(r, id) ==
    {t \in Workers : tcall[t].op = "AddFeature" /\ tcall[t].dt = r /\ tcall[t].id = id}

C19_DuplicateFeatureRejected ==
    /\ [][\A t \in Threads :
            (/\ tpc[t] = "act" /\ tcall[t].op = "AddFeature" /\ tpc'[t] = "unlock"
             /\ tcall[t].id \in DOMAIN features[tcall[t].dt])
               => /\ tret'[t] = ErrFeatureAlreadyExists
                  /\ features' = features
                  /\ heap' = heap]_vars
    /\ []((\A t \in Workers : tpc[t] = "done")
            => \A r \in Allocated, id \in FeatureIDs :
                  AddersOf(r, id) # {}
                     => \E t \in AddersOf(r, id) :
                           /\ tret[t] = NilErr
                           /\ features[r][id] = tcall[t].feature
                           /\ \A u \in AddersOf(r, id) \ {t} :
                                tret[u] = ErrFeatureAlreadyExists)

\* All workers have called AddFeature with the same id; one has added its feature,
\* and the others, given another feature, were rejected; the clock has moved on
\* since the feature was added.
C19_Witness ==
    /\ \A t \in Workers : tpc[t] = "done" /\ tcall[t].id = "temperature"
    /\ \E t \in Workers :
         /\ tret[t] = NilErr
         /\ \A u \in Workers \ {t} : tcall[u].feature # tcall[t].feature
    /\ heap[1].ModifiedAt < now

\* --------------------------------------------------------------- C20
\* C20: UpdateFeature(id, f) and RemoveFeature(id) on a twin that has no feature id
\* return ErrFeatureNotFound and change neither dt.Features nor ModifiedAt; and no
\* step of UpdateFeature adds a feature id to a twin.
C20_AbsentFeatureNotFound ==
    [][\A t \in Threads :
         /\ (/\ tpc[t] = "act" /\ tcall[t].op \in {"UpdateFeature", "RemoveFeature"}
             /\ tpc'[t] = "unlock"
             /\ tcall[t].id \notin DOMAIN features[tcall[t].dt])
               => /\ tret'[t] = ErrFeatureNotFound
                  /\ features' = features
                  /\ heap' = heap
         /\ (tpc[t] = "act" /\ tcall[t].op = "UpdateFeature" /\ tpc'[t] = "unlock")
               => \A r \in Refs : DOMAIN features'[r] = DOMAIN features[r]]_vars

\* An UpdateFeature has failed on a feature id the twin does not have while it has
\* another one; the clock has moved on since the twin was last modified.
C20_Witness ==
    \E t \in Threads :
        /\ tpc[t] = "unlock" /\ tcall[t].op = "UpdateFeature"
        /\ tret[t] = ErrFeatureNotFound
        /\ tcall[t].id = "temperature"
        /\ DOMAIN features[tcall[t].dt] = {"humidity"}
        /\ heap[tcall[t].dt].ModifiedAt < now

\* --------------------------------------------------------------- C21

\* What dt.GetFeature(id) reports of twin r at this moment: whether the feature is
\* present, and the contents of its property maps and of its definition list.
Reported(r, id) ==
    IF id \in DOMAIN features[r]
      THEN [exists |-> TRUE,
            Properties |-> KV(features[r][id].Properties),
            DesiredProps |-> KV(features[r][id].DesiredProps),
            Definition |-> Elems(features[r][id].Definition),
            LastModified |-> features[r][id].LastModified]
      ELSE [exists |-> FALSE]

\* Goroutine t completes a mutating method of its local FeatureState in this step.
Mutates(t) == fpc[t] = "act" /\ IsFsWriter(fcall[t].op) /\ fpc'[t] = "idle"

\* C21: a mutating FeatureState method called on a value that GetFeature returned
\* leaves what GetFeature reports of every twin as it was.
C21_ReturnedCopyIsDisconnected ==
    [][\A t \in Threads :
         (Mutates(t) /\ hold[t].src = "get") =>
             \A r \in Refs, id \in FeatureIDs : Reported(r, id)' = Reported(r, id)]_vars

\* --------------------------------------------------------------- C22

HoldsMutex(m, t) == (t # NoThread /\ m.w = t) \/ t \in m.r

\* The locks goroutine t holds.
Holds(t) ==
    (IF HoldsMutex(regMutex, t) THEN {<<"registry", 0>>} ELSE {})
    \cup {<<"twin", r>> : r \in {q \in Refs : HoldsMutex(twinMutex[q], t)}}
    \cup {<<"feature", o>> : o \in {q \in Threads : HoldsMutex(feature[q].mutex, t)}}
    \cup (IF HoldsMutex(psMutex, t) THEN {<<"bus", 0>>} ELSE {})

\* C22 as stated: no goroutine ever holds more than one lock.
C22_AtMostOneLock == \A t \in Threads : Cardinality(Holds(t)) <= 1

\* C22, amended: a goroutine holds one lock at most, except that a scan of the
\* Registry, while it reads a twin, holds the Registry's mutex and that twin's mutex,
\* both for reading, and nothing else.
C22_OneLockExceptScan ==
    \A t \in Threads :
        IF pc[t] = "read"
          THEN /\ Holds(t) = {<<"registry", 0>>, <<"twin", find[t].cur>>}
               /\ t \in regMutex.r /\ t \in twinMutex[find[t].cur].r
          ELSE Cardinality(Holds(t)) <= 1

\* A scan has read and released the first twin and now reads the second one, holding
\* the two mutexes, while a writer waits for that twin's mutex.
C22_Witness ==
    /\ pc[Scanner] = "read"
    /\ Cardinality(find[Scanner].seen) = 2
    /\ Cardinality(Holds(Scanner)) = 2
    /\ tpc[Handler] = "lock"
    /\ tcall[Handler].dt = find[Scanner].cur

\* --------------------------------------------------------------- C23

\* The map m is a property map of a feature that a twin stores.
StoredMap(m) ==
    \E r \in Refs : \E id \in DOMAIN features[r] :
        m \in {features[r][id].Properties, features[r][id].DesiredProps}

\* Goroutine t is inside the locked region of a call that writes the map m.
Writing(t, m) == fpc[t] = "act" /\ IsFsWriter(fcall[t].op) /\ TargetMap(t) = m

\* C23: two goroutines are never at the same time inside calls that write the same
\* stored property map.
C23_OneWriterPerMap ==
    \A m \in FsMaps : StoredMap(m) =>
        \A t, u \in Threads : (Writing(t, m) /\ Writing(u, m)) => t = u

\* --------------------------------------------------------------- C24

\* Goroutine t's UpdateFeature takes effect in this step.
Updates(t) == tpc[t] = "act" /\ tcall[t].op = "UpdateFeature" /\ tpc'[t] = "unlock"

\* C24: whatever other goroutines did to the feature since the caller got it, its
\* UpdateFeature either stores the caller's FeatureState in place of what is stored,
\* or fails with ErrFeatureNotFound when the feature is no longer there and leaves the
\* features as they are.
C24_OverwritesOrNotFound ==
    [][\A t \in Threads : Updates(t) =>
         IF tcall[t].id \in DOMAIN features[tcall[t].dt]
           THEN /\ tret'[t] = NilErr
                /\ features'[tcall[t].dt] =
                       MapPut(features[tcall[t].dt], tcall[t].id, tcall[t].feature)
           ELSE /\ tret'[t] = ErrFeatureNotFound
                /\ features' = features]_vars

\* A lost update: Rival's UpdateFeature stored a definition and returned no error,
\* Handler, which had got the feature before, has stored its own FeatureState after
\* that, also without an error, and the stored feature has no definition.
C24_Witness ==
    /\ tpc[Rival] = "done" /\ tcall[Rival].op = "UpdateFeature" /\ tret[Rival] = NilErr
    /\ tcall[Rival].feature.Definition # NilRef
    /\ tpc[Handler] = "done" /\ tcall[Handler].op = "UpdateFeature"
    /\ tret[Handler] = NilErr
    /\ features[1]["temperature"] = tcall[Handler].feature
    /\ features[1]["temperature"].Definition = NilRef

\* --------------------------------------------------------------- C25

\* The twin objects the Registry holds.
Registered == {twins[id] : id \in DOMAIN twins}

\* Twin r has the attribute k, with a value equal to v.
HasAttribute(r, k, v) == k \in DOMAIN KV(AttrMap(r)) /\ KV(AttrMap(r))[k] = v

\* The elements of a slice, and whether each is in it once.
Range(s) == {s[i] : i \in DOMAIN s}
EachOnce(s) == \A i, j \in DOMAIN s : s[i] = s[j] => i = j

\* Goroutine t is in FindByAttribute, and at its return.
InFindByAttribute(t) == call[t].op = "FindByAttribute"
Returns(t) == pc[t] = "unlock"

\* C25: with no concurrent mutation, FindByAttribute(k, v) returns, and what it returns
\* is, each once, the registered twins that have the attribute k with a value equal
\* to v; and no step of it changes the Registry or a twin.
C25_FindByAttributeExact ==
    /\ [](\A t \in Threads : InFindByAttribute(t) =>
            /\ pc[t] # "panic"
            /\ Returns(t) =>
                 /\ Range(find[t].result) =
                        {r \in Registered : HasAttribute(r, call[t].key, call[t].value)}
                 /\ EachOnce(find[t].result))
    /\ [][\A t \in Threads : (InFindByAttribute(t) /\ pc'[t] # pc[t]) =>
            /\ twins' = twins /\ heap' = heap /\ maps' = maps /\ features' = features]_vars

\* --------------------------------------------------------------- C26

InFindByFeature(t) == call[t].op = "FindByFeature"

\* C26: with no concurrent mutation, what FindByFeature(f) returns is, each once, the
\* registered twins whose Features have the key f at that time, whatever the
\* FeatureState under it holds and although Registry.Update was never called.
C26_FindByFeatureExact ==
    \A t \in Threads : (InFindByFeature(t) /\ Returns(t)) =>
        /\ Range(find[t].result) = {r \in Registered : call[t].key \in DOMAIN features[r]}
        /\ EachOnce(find[t].result)

\* A scan returns one registered twin, whose feature f was added after the twin was
\* registered and has no properties, and not the other registered twin, which does
\* not have f.
C26_Witness ==
    \E t \in Threads :
        /\ InFindByFeature(t) /\ Returns(t)
        /\ Cardinality(Registered) = 2
        /\ Len(find[t].result) = 1
        /\ KV(features[find[t].result[1]][call[t].key].Properties) = EmptyMap

\* --------------------------------------------------------------- C27

\* Goroutine t's call changes twin r in this step: the assignment of SetAttribute,
\* RemoveAttribute or SetDefinition, or an AddFeature, UpdateFeature or RemoveFeature
\* that returns no error.
ChangesTwin(t, r) ==
    /\ tcall[t].dt = r
    /\ tpc'[t] = "unlock"
    /\ \/ tpc[t] = "lookup" /\ tcall[t].op \in {"SetAttribute", "RemoveAttribute", "SetDefinition"}
       \/ /\ tpc[t] = "act"
          /\ tcall[t].op \in {"AddFeature", "UpdateFeature", "RemoveFeature"}
          /\ tret'[t] = NilErr

\* C27: CreatedAt of a twin never changes and ModifiedAt never moves backwards; every
\* change of a twin sets its ModifiedAt to the time of the change; a mutating method
\* of a FeatureState leaves the twins' ModifiedAt as it is.
C27_ModifiedAtAdvances ==
    [][\A r \in Allocated :
         /\ heap'[r].CreatedAt = heap[r].CreatedAt
         /\ heap'[r].ModifiedAt >= heap[r].ModifiedAt
         /\ \A t \in Threads :
              /\ ChangesTwin(t, r) => heap'[r].ModifiedAt = now
              /\ Mutates(t) => heap'[r].ModifiedAt = heap[r].ModifiedAt]_vars

\* SetAttribute has set ModifiedAt to 1, the time of the call, CreatedAt being 0, and
\* the goroutine holds a FeatureState that it got from the twin and changed at time 1,
\* the stored one having been changed at time 0.
C27_Witness ==
    /\ tpc[Handler] = "unlock" /\ tcall[Handler].op = "SetAttribute"
    /\ heap[1].CreatedAt = 0 /\ heap[1].ModifiedAt = 1
    /\ hold[Handler].src = "get" /\ feature[Handler].LastModified = 1
    /\ features[1]["temperature"].LastModified = 0

\* --------------------------------------------------------------- C28

\* The body of goroutine t's mutating FeatureState call runs in this step.
MutatorRuns(t) ==
    /\ fpc[t] = "act" /\ IsFsWriter(fcall[t].op)
    /\ (fpc'[t] # fpc[t] \/ panic' # panic)

\* C28: every mutating method of a FeatureState made by NewFeatureState, or got from
\* a twin that has it, returns without a failure, whether or not the key is present,
\* and has set LastModified of the FeatureState it was called on, and of no stored
\* one, to the time of the call.
C28_MutatorsTouchLastModified ==
    [][\A t \in Threads : MutatorRuns(t) =>
         /\ fpc'[t] = "idle"
         /\ panic' = "none"
         /\ feature'[fcall[t].obj].LastModified = now
         /\ features' = features]_vars

\* The goroutine got the feature, last changed at time 0, from the twin and called a
\* mutating method on what it got at time 1: LastModified of its variable is 1, that
\* of the stored FeatureState is 0 still.
C28_Witness ==
    /\ fpc[Handler] = "idle" /\ hold[Handler].src = "get"
    /\ feature[Handler].LastModified = 1
    /\ "temperature" \in DOMAIN features[1]
    /\ features[1]["temperature"].LastModified = 0
    /\ features[1]["temperature"].Properties = feature[Handler].Properties

\* --------------------------------------------------------------- C29

\* The maps of the objects: the Attributes of the twins, and the Properties and
\* DesiredProps of the FeatureStates the goroutines hold and the twins store.
ObjectMaps ==
    ({AttrMap(r) : r \in Allocated}
       \cup UNION {{feature[t].Properties, feature[t].DesiredProps} : t \in Threads}
       \cup {m \in MapRefs : StoredMap(m)}) \ {NilRef}

\* What GetAllAttributes, GetAllProperties or GetAllDesiredProperties gave t changes.
ReturnedChanges(t) ==
    /\ hold[t].map # NilRef
    /\ hold'[t].map = hold[t].map
    /\ maps'[hold[t].map] # maps[hold[t].map]

\* C29: no step changes both a map that GetAllProperties, GetAllDesiredProperties or
\* GetAllAttributes returned and a map of an object: an insertion, change or deletion
\* in the returned map leaves the objects as they are, and a later set or remove on
\* an object leaves the returned map as it is.
C29_ReturnedMapIsIndependent ==
    [][\A t \in Threads : ReturnedChanges(t) =>
         \A m \in ObjectMaps : maps'[m] = maps[m]]_vars

\* The goroutine holds a map that GetAllProperties or GetAllDesiredProperties gave
\* it and has inserted the key "location" into it; the FeatureState, which never has
\* that key, has the property "value", which the returned map has not.
C29_Witness ==
    /\ Idle(Handler)
    /\ hold[Handler].map \in FsMaps
    /\ feature[Handler].Properties # NilRef
    /\ "value" \in DOMAIN KV(feature[Handler].Properties)
    /\ "value" \notin DOMAIN KV(hold[Handler].map)
    /\ "location" \in DOMAIN KV(hold[Handler].map)

\* --------------------------------------------------------------- C30

\* What GetDefinition called on goroutine o's FeatureState would return now.
DefinitionOf(o) == Elems(feature[o].Definition)

\* The elements of the list a, and the same of o's FeatureState, after the step.
ElemsAfter(a) == IF a = NilRef THEN <<>> ELSE arrays'[a].elems
DefinitionAfter(o) == ElemsAfter(feature'[o].Definition)

\* A step of a caller, outside every method of a FeatureState, that changes a list:
\* it makes one or writes an element of one.
CallerWrites ==
    /\ \A t \in Threads : fpc[t] = "idle" /\ fpc'[t] = "idle"
    /\ arrays' # arrays

\* C30: SetDefinition stores the elements of the list it is given and GetDefinition
\* returns the elements stored, and no change the caller makes to a list of its own,
\* be it the one it passed to SetDefinition or one GetDefinition returned, changes
\* what GetDefinition returns.
C30_DefinitionCopiedInAndOut ==
    [][\A t \in Threads :
         /\ CallerWrites => \A o \in Threads : DefinitionAfter(o) = DefinitionOf(o)
         /\ (fpc[t] = "act" /\ fpc'[t] = "idle" /\ fcall[t].op = "SetDefinition")
              => DefinitionAfter(fcall[t].obj) = Elems(fcall[t].list)
         /\ (fpc[t] = "act" /\ fpc'[t] = "idle" /\ fcall[t].op = "GetDefinition")
              => /\ ElemsAfter(hold'[t].list) = DefinitionOf(fcall[t].obj)
                 /\ DefinitionAfter(fcall[t].obj) = DefinitionOf(fcall[t].obj)]_vars

\* The goroutine passed its list to SetDefinition, got a list from GetDefinition and
\* then changed the first element of both: the FeatureState has the definition as
\* it was passed.
C30_Witness ==
    /\ Idle(Handler)
    /\ hold[Handler].own # NilRef /\ hold[Handler].list # NilRef
    /\ DefinitionOf(Handler) = <<"d1", "d2">>
    /\ Elems(hold[Handler].own) = <<"d2", "d2">>
    /\ Elems(hold[Handler].list) = <<"d2", "d2">>

\* --------------------------------------------------------------- C39

\* The workers whose Create was given a twin of this id.
CreatorsOf(id) == {w \in Workers : heap[call[w].dt].ID = id}

\* C39: when the workers' concurrent Create calls have all returned, then of the
\* calls given twins of one id exactly one returned nil, every other one returned
\* ErrTwinAlreadyExists, and the Registry holds under that id the twin the successful
\* call was given.
C39_OneCreateWins ==
    AllWorkersDone =>
        \A id \in IDs :
            CreatorsOf(id) # {} =>
                \E w \in CreatorsOf(id) :
                    /\ ret[w].err = NilErr
                    /\ id \in DOMAIN twins /\ twins[id] = call[w].dt
                    /\ \A v \in CreatorsOf(id) \ {w} : ret[v].err = ErrTwinAlreadyExists

\* All workers were given twins of the id "a", their calls have returned, and the
\* one that won is not the one that constructed its twin first.
C39_Witness ==
    /\ AllWorkersDone
    /\ CreatorsOf("a") = Workers
    /\ twins["a"] # 1

\* --------------------------------------------------------------- C38

\* The channels a Publish in its loop has still to send to.
ToSend(t) ==
    IF pub[t].pc = "loop"
      THEN {pub[t].subs[j] : j \in pub[t].i..Len(pub[t].subs)}
      ELSE {}

\* C38: no send on a closed channel and no close of a closed channel is ever
\* executed: a closed channel is in no topic's slice, where a later Close would close
\* it again, and in no slice that a Publish is iterating over.
C38_ClosedChannelsUnreachable ==
    /\ panic = "none"
    /\ \A c \in Chans : chans[c].closed =>
         /\ c \notin Subscribed
         /\ \A t \in Threads : c \notin ToSend(t)

\* Close has closed a channel; a channel subscribed to the same topic after that
\* holds a message, and a goroutine is in the loop of another Publish to that topic.
C38_Witness ==
    \E c, d \in Chans, t \in Threads :
        /\ chans[c].closed
        /\ d \in Subscribed /\ subTopic[d] = subTopic[c]
        /\ chans[d].buf # <<>>
        /\ d \in ToSend(t)

\* --------------------------------------------------------------- C40

\* C40: a channel's buffer changes only by a send that appends a message or by the
\* consumer's receive that takes its head, so Close and Unsubscribe discard nothing;
\* a channel that holds a message can be received from, closed or unsubscribed or
\* not, and the end of the stream is not observed while a message waits.
C40_BufferedMessagesSurvive ==
    /\ [](\A c \in Chans :
            (chans[c].made /\ chans[c].buf # <<>>)
               => ENABLED Recv(c) /\ ~EndOfStream(c))
    /\ [][\A c \in Chans :
            /\ chans'[c].buf # chans[c].buf
                 => \/ /\ chans[c].buf # <<>>
                       /\ chans'[c].buf = Tail(chans[c].buf)
                       /\ lastRecv'[c] = Head(chans[c].buf)
                    \/ /\ ~chans[c].closed
                       /\ \E t \in Threads :
                            chans'[c].buf = Append(chans[c].buf, pub[t].msg)
            /\ (chans'[c].closed # chans[c].closed \/ removed' # removed)
                 => chans'[c].buf = chans[c].buf]_vars

\* A closed channel, of which the consumer has dequeued a message, holds a later one
\* that the consumer can dequeue, and a channel that was unsubscribed and is not
\* closed holds a message still.
C40_Witness ==
    \E c, d \in Chans :
        /\ chans[c].closed /\ Len(chans[c].buf) = 1
        /\ lastRecv[c] # NoMessage /\ lastRecv[c].Payload < chans[c].buf[1].Payload
        /\ ENABLED Recv(c)
        /\ d \in removed /\ ~chans[d].closed /\ chans[d].buf # <<>>

\* --------------------------------------------------------------- C37

\* Goroutine t is inside a call of the Registry, of a twin, of a FeatureState or of
\* the bus.
InCall(t) == ~Idle(t)

\* C37: every call a goroutine has entered returns, and a goroutine that is in no
\* call holds no lock.
C37_AllOperationsComplete ==
    /\ [](\A t \in Threads : Idle(t) => Holds(t) = {})
    /\ \A t \in Threads : InCall(t) ~> Idle(t)

\* --------------------------------------------------------------- C31

\* Goroutine t's Registry call of this kind returns nil in this step.
Succeeds(t, op) ==
    /\ call[t].op = op /\ pc[t] \in {"act", "lookup"} /\ pc'[t] = "unlock"
    /\ ret'[t].err = NilErr

\* Goroutine t's SetAttribute writes the twin's map in this step.
Sets(t) == tcall[t].op = "SetAttribute" /\ tpc[t] = "lookup" /\ tpc'[t] = "unlock"

\* C31: the Registry holds the callers' references. A Create or an Update that
\* returns nil leaves under the twin's id the reference it was given, whatever was
\* stored before; Get returns the stored reference and List the stored references;
\* a SetAttribute through a reference that is the stored entry shows in the stored
\* entry at once, with no Update; and a FindByAttribute scan returns the registered
\* twins that have the attribute value at that time.
C31_StoresCallersReference ==
    /\ [][\A t \in Threads :
            /\ (Succeeds(t, "Create") \/ Succeeds(t, "Update")) =>
                   /\ heap[call[t].dt].ID \in DOMAIN twins'
                   /\ twins'[heap[call[t].dt].ID] = call[t].dt
            /\ Succeeds(t, "Get") => ret'[t].dt = twins[call[t].id]
            /\ Succeeds(t, "List") => ret'[t].list = Registered
            /\ Sets(t) =>
                   \A id \in DOMAIN twins : twins[id] = tcall[t].dt =>
                       /\ tcall[t].key \in DOMAIN maps'[AttrMap(twins'[id])].kv
                       /\ maps'[AttrMap(twins'[id])].kv[tcall[t].key] = tcall[t].value]_vars
    /\ [](\A t \in Threads : (InFindByAttribute(t) /\ Returns(t)) =>
            Range(find[t].result) =
                {r \in Registered : HasAttribute(r, call[t].key, call[t].value)})

\* Get returns the second twin constructed, which Update put in the place of the
\* first, and it has the attribute value "lab", which the first twin does not have.
C31_Witness ==
    /\ call[Handler].op = "Get" /\ pc[Handler] = "unlock"
    /\ ret[Handler].dt = 2 /\ twins["a"] = 2
    /\ HasAttribute(2, "location", "lab")
    /\ heap[1] # NoTwin /\ ~HasAttribute(1, "location", "lab")

\* --------------------------------------------------------------- C32

\* The handler of goroutine t answers in this step.
Answers(t) == req[t].stage # "respond" /\ req'[t].stage = "respond"

\* The call whose result the handler of goroutine t reads next found no such twin,
\* feature or property: Registry.Get, Update or Delete returned ErrTwinNotFound, the
\* twin's UpdateFeature or RemoveFeature returned ErrFeatureNotFound, or the lookup
\* of the feature or of the property key of a handler that needs it was without
\* result.
NotFoundCause(t) ==
    \/ req[t].stage \in {"get", "store"} /\ pc[t] = "done" /\ ret[t].err = ErrTwinNotFound
    \/ req[t].stage = "write" /\ tpc[t] = "done" /\ tret[t] = ErrFeatureNotFound
    \/ /\ req[t].stage = "feature" /\ tpc[t] = "idle" /\ ~hold[t].exists
       /\ req[t].op \notin {"GetFeatures", "UpdateFeature"}
    \/ /\ req[t].stage = "prop" /\ fpc[t] = "idle" /\ ~hold[t].exists
       /\ req[t].op # "GetProperties"

\* C32: a handler that answers because the twin, the feature or the property it
\* addresses does not exist answers "not found", also when the twin or the feature
\* went away between the handler's lookup and its write-back.
C32_NotFoundAnswered ==
    [][\A t \in Threads : (Answers(t) /\ NotFoundCause(t)) => req'[t].status = "not found"]_vars

\* --------------------------------------------------------------- C33

\* The call whose result the handler of goroutine t reads next found the twin or the
\* feature there already: Registry.Create returned ErrTwinAlreadyExists or the twin's
\* AddFeature returned ErrFeatureAlreadyExists.
AlreadyExistsCause(t) ==
    \/ req[t].stage = "store" /\ pc[t] = "done" /\ ret[t].err = ErrTwinAlreadyExists
    \/ req[t].stage = "write" /\ tpc[t] = "done" /\ tret[t] = ErrFeatureAlreadyExists

\* C33: a handler that answers because Registry.Create or the twin's AddFeature
\* found the twin or the feature there already answers "conflict", also when two
\* concurrent feature PUT requests both found the feature absent.
C33_ConflictAnswered ==
    [][\A t \in Threads :
          (Answers(t) /\ AlreadyExistsCause(t)) => req'[t].status = "conflict"]_vars

\* --------------------------------------------------------------- C34

\* The places in the history of the events of request number n.
EventsOf(n) == {i \in 1..Len(events) : events[i].n = n}

\* The request of goroutine t is a mutating one and its handler has called Publish,
\* or has answered with success.
HasPublished(t) ==
    /\ req[t].op \in WriteOps
    /\ \/ req[t].stage = "publish"
       \/ req[t].stage \in {"respond", "done"} /\ req[t].status \in {"ok", "created"}

\* C34: a mutating request that succeeds publishes one event, on the topic of its
\* handler and with the id of its twin, and publishes it when its Registry.Create,
\* Update or Delete has returned nil; a request that is answered with an error, a
\* read request, and a request before that point have published nothing.
C34_OneEventAfterRegistryWrite ==
    /\ [](\A t \in Threads : req[t].n > 0 =>
            IF HasPublished(t)
              THEN /\ Cardinality(EventsOf(req[t].n)) = 1
                   /\ \A i \in EventsOf(req[t].n) :
                        /\ events[i].topic = EventTopic(req[t].op)
                        /\ events[i].topic # ""
                        /\ events[i].id = req[t].id
              ELSE EventsOf(req[t].n) = {})
    /\ [][events' # events =>
            \E t \in Threads :
                /\ pc[t] = "done" /\ ret[t].err = NilErr
                /\ call[t].op \in {"Create", "Update", "Delete"}
                /\ events' = Append(events, [topic |-> EventTopic(req[t].op),
                                             id |-> req[t].id, n |-> req[t].n])
                /\ pub'[t].msg.Topic = EventTopic(req[t].op)]_vars

\* The third event is that of a DELETE of the twin, answered with success, while the
\* other client's PUT of the twin, whose Registry.Update then failed, was answered
\* with an error and has no event.
C34_Witness ==
    /\ req[Handler].op = "DeleteTwin" /\ req[Handler].status = "ok"
    /\ Len(events) = 3 /\ events[3].topic = "twin.deleted" /\ events[3].id = "a"
    /\ req[Rival].op = "UpdateTwin" /\ req[Rival].status = "internal error"
    /\ req[Rival].stage = "done"

\* --------------------------------------------------------------- C35

\* The handler of goroutine t has answered a feature PUT with success.
PutAnswered(t) ==
    /\ req[t].op = "UpdateFeature"
    /\ req[t].stage \in {"respond", "done"} /\ req[t].status = "ok"

\* C35: when a feature PUT has been answered with success, the twin has the
\* feature, and the properties that Registry.Get and GetFeature report for it are
\* those it had when the request came (none when the twin did not have the feature),
\* with the property of the request set to its value.
C35_PutFeatureUpserts ==
    \A t \in Threads : PutAnswered(t) =>
        /\ req[t].id \in DOMAIN twins
        /\ req[t].fid \in DOMAIN features[twins[req[t].id]]
        /\ KV(features[twins[req[t].id]][req[t].fid].Properties) =
               IF req[t].key = "" THEN req[t].before
                                  ELSE MapPut(req[t].before, req[t].key, req[t].value)

\* A PUT with the property "unit" was answered with success for a feature that had
\* the property "value": the feature has both.
C35_Witness ==
    /\ PutAnswered(Handler) /\ req[Handler].key = "unit"
    /\ DOMAIN req[Handler].before = {"value"}
    /\ DOMAIN KV(features[twins["a"]]["temperature"].Properties) = {"value", "unit"}

\* --------------------------------------------------------------- C36

\* The handler of goroutine t has started, s.wg.Add(1) included, and has not
\* returned.
InFlight(t) == req[t].stage \notin {"none", "entered", "done"}

\* C36: Shutdown returns nil only when no handler is in flight; while a handler that
\* has started is still running, Shutdown does not return or returns the error of
\* the context.
C36_NilOnlyWhenNoHandler ==
    [][(shut # "nil" /\ shut' = "nil") => \A t \in Threads : ~InFlight(t)]_vars

====
